---- MODULE Spec2Model ----
(***************************************************************************)
(* Daily headline collector: balanced sampling of two scraped headline     *)
(* lists, three-way merge into the integrated dataset and the per-run      *)
(* scraping report (daily_headline_collector.py).                          *)
(*                                                                         *)
(* A headline is a sequence of one-character strings, so that              *)
(* str.lower() and str.strip() are computed and not assumed.  A CSV file   *)
(* is a record: whether it exists, whether pandas.read_csv can parse it,   *)
(* its column set and its rows (records over that column set).             *)
(*                                                                         *)
(* The scrape functions are followed one request at a time in              *)
(* specifications of their own: the retry loop (SpecFetch), the two        *)
(* scrapes of one collection (SpecCollect), the validity predicates        *)
(* (SpecValid) and the paginated extraction with the browser               *)
(* (SpecPaginate).  SpecRace follows two processes that run the merge on   *)
(* the same files, one file operation at a time; SpecOneRun is one run of  *)
(* main() after the scrapes, on any stores.                                *)
(***************************************************************************)
EXTENDS Integers, Sequences, FiniteSets, TLC

VARIABLES fs, clock, pc, run, fox_headlines, nbc_headlines, daily_headlines,
          exit_status,
          scraper, max_retries, attempt, headlines, seen, events, returned,
          page_sources, max_load_more_clicks, click_num,
          headline_text, valid,
          process

\* The state of a run of main(): the files, the day the computer's clock
\* showed when datetime.now() was last called, the scraped lists, the batch.
mainVars == <<fs, clock, run, fox_headlines, nbc_headlines, daily_headlines,
              exit_status>>

\* The state of one call of a scrape function: its arguments and locals, the
\* requests and sleeps it has made, the pages the browser shows, its result.
scrapeVars == <<scraper, max_retries, attempt, headlines, seen, events,
                returned, page_sources, max_load_more_clicks, click_num>>

\* The state of one call of a validity predicate.
validVars == <<headline_text, valid>>

\* The state of the processes that run main() at the same time.
raceVars == <<process>>

vars == <<fs, clock, pc, run, fox_headlines, nbc_headlines, daily_headlines,
          exit_status,
          scraper, max_retries, attempt, headlines, seen, events, returned,
          page_sources, max_load_more_clicks, click_num,
          headline_text, valid, process>>

(***************************************************************************)
(* Bounds                                                                  *)
(***************************************************************************)
MaxRuns == 2
MaxScrape == 2
MaxBatch == 2

(***************************************************************************)
(* Text: lower(), strip(), canonical key                                   *)
(***************************************************************************)
\* A character of a text is a string: the character itself when it is ASCII,
\* and the name of its code point otherwise ("U+00C9" is the capital E with
\* an acute accent), so that this module is the same text in every encoding.
\* The texts of this module are made of the characters of Whitespace, the
\* ones of Unchanged and the ones that LowerTable changes; no operator is
\* defined on another string.

\* The characters of the alphabet that are no blanks and that str.lower()
\* leaves as they are: the printable ASCII characters other than the capital
\* letters (and the grave accent, which no string of a module can hold), the
\* signs and the small letters of Latin-1, and the combining dot
\* above, the Cyrillic small de, the zero width space, the em dash, the
\* typeset quotation marks and the euro sign.
Unchanged ==
  {"!", "\"", "#", "$", "%", "&", "'", "(", ")", "*", "+", ",", "-", ".",
   "/", "0", "1", "2", "3", "4", "5", "6", "7", "8", "9", ":", ";", "<",
   "=", ">", "?", "@", "[", "\\", "]", "^", "_", "a", "b", "c", "d",
   "e", "f", "g", "h", "i", "j", "k", "l", "m", "n", "o", "p", "q", "r",
   "s", "t", "u", "v", "w", "x", "y", "z", "{", "|", "}", "~", "U+00A1",
   "U+00A2", "U+00A3", "U+00A4", "U+00A5", "U+00A6", "U+00A7", "U+00A8",
   "U+00A9", "U+00AA", "U+00AB", "U+00AC", "U+00AD", "U+00AE", "U+00AF",
   "U+00B0", "U+00B1", "U+00B2", "U+00B3", "U+00B4", "U+00B5", "U+00B6",
   "U+00B7", "U+00B8", "U+00B9", "U+00BA", "U+00BB", "U+00BC", "U+00BD",
   "U+00BE", "U+00BF", "U+00D7", "U+00DF", "U+00E0", "U+00E1", "U+00E2",
   "U+00E3", "U+00E4", "U+00E5", "U+00E6", "U+00E7", "U+00E8", "U+00E9",
   "U+00EA", "U+00EB", "U+00EC", "U+00ED", "U+00EE", "U+00EF", "U+00F0",
   "U+00F1", "U+00F2", "U+00F3", "U+00F4", "U+00F5", "U+00F6", "U+00F7",
   "U+00F8", "U+00F9", "U+00FA", "U+00FB", "U+00FC", "U+00FD", "U+00FE",
   "U+00FF", "U+0307", "U+0434", "U+200B", "U+2014", "U+2019", "U+201C",
   "U+201D", "U+20AC"}

\* c.lower() for the characters that str.lower() changes: the capital letters
\* of ASCII and of Latin-1, the Cyrillic capital de, and the capital I with a
\* dot above, which becomes two characters.
LowerTable ==
  "A" :> <<"a">> @@ "B" :> <<"b">> @@ "C" :> <<"c">> @@ "D" :> <<"d">> @@
  "E" :> <<"e">> @@ "F" :> <<"f">> @@ "G" :> <<"g">> @@ "H" :> <<"h">> @@
  "I" :> <<"i">> @@ "J" :> <<"j">> @@ "K" :> <<"k">> @@ "L" :> <<"l">> @@
  "M" :> <<"m">> @@ "N" :> <<"n">> @@ "O" :> <<"o">> @@ "P" :> <<"p">> @@
  "Q" :> <<"q">> @@ "R" :> <<"r">> @@ "S" :> <<"s">> @@ "T" :> <<"t">> @@
  "U" :> <<"u">> @@ "V" :> <<"v">> @@ "W" :> <<"w">> @@ "X" :> <<"x">> @@
  "Y" :> <<"y">> @@ "Z" :> <<"z">> @@ "U+00C0" :> <<"U+00E0">> @@
  "U+00C1" :> <<"U+00E1">> @@ "U+00C2" :> <<"U+00E2">> @@
  "U+00C3" :> <<"U+00E3">> @@ "U+00C4" :> <<"U+00E4">> @@
  "U+00C5" :> <<"U+00E5">> @@ "U+00C6" :> <<"U+00E6">> @@
  "U+00C7" :> <<"U+00E7">> @@ "U+00C8" :> <<"U+00E8">> @@
  "U+00C9" :> <<"U+00E9">> @@ "U+00CA" :> <<"U+00EA">> @@
  "U+00CB" :> <<"U+00EB">> @@ "U+00CC" :> <<"U+00EC">> @@
  "U+00CD" :> <<"U+00ED">> @@ "U+00CE" :> <<"U+00EE">> @@
  "U+00CF" :> <<"U+00EF">> @@ "U+00D0" :> <<"U+00F0">> @@
  "U+00D1" :> <<"U+00F1">> @@ "U+00D2" :> <<"U+00F2">> @@
  "U+00D3" :> <<"U+00F3">> @@ "U+00D4" :> <<"U+00F4">> @@
  "U+00D5" :> <<"U+00F5">> @@ "U+00D6" :> <<"U+00F6">> @@
  "U+00D8" :> <<"U+00F8">> @@ "U+00D9" :> <<"U+00F9">> @@
  "U+00DA" :> <<"U+00FA">> @@ "U+00DB" :> <<"U+00FB">> @@
  "U+00DC" :> <<"U+00FC">> @@ "U+00DD" :> <<"U+00FD">> @@
  "U+00DE" :> <<"U+00FE">> @@ "U+0130" :> <<"i", "U+0307">> @@
  "U+0414" :> <<"U+0434">>

\* The characters that str.isspace() holds true, which are the ones that
\* str.strip() removes and str.split() splits at: all 29 of them.
Whitespace ==
  {"\t", "\n", "", "\f", "\r", "", "", "", "", " ", "U+0085", "U+00A0",
   "U+1680", "U+2000", "U+2001", "U+2002", "U+2003", "U+2004", "U+2005",
   "U+2006", "U+2007", "U+2008", "U+2009", "U+200A", "U+2028", "U+2029",
   "U+202F", "U+205F", "U+3000"}

\* c.isspace()
IsSpace(c) ==
  CASE c \in Unchanged -> FALSE
    [] c \in Whitespace -> TRUE
    [] c \in DOMAIN LowerTable -> FALSE

\* c.lower() as a sequence of characters
LowerChar(c) ==
  CASE c \in Unchanged -> <<c>>
    [] c \in Whitespace -> <<c>>
    [] c \in DOMAIN LowerTable -> LowerTable[c]

\* s.lower()
RECURSIVE str_lower(_)
str_lower(s) ==
  IF s = <<>> THEN <<>> ELSE LowerChar(Head(s)) \o str_lower(Tail(s))

RECURSIVE lstrip(_)
lstrip(s) ==
  IF s = <<>> THEN s
  ELSE IF IsSpace(Head(s)) THEN lstrip(Tail(s)) ELSE s

RECURSIVE rstrip(_)
rstrip(s) ==
  IF s = <<>> THEN s
  ELSE IF IsSpace(s[Len(s)]) THEN rstrip(SubSeq(s, 1, Len(s) - 1)) ELSE s

str_strip(s) == rstrip(lstrip(s))

\* The keys of the headlines that the stores and the scraped lists of the
\* runs below hold, worked out once.
KeyOfHeadline ==
  [h \in {<<"A", "b">>, <<"c", "d">>, <<"a", "b">>, <<"g", "h">>,
          <<"a", "b", " ">>, <<"E", "f">>, <<"A", "B">>, <<" ", "c", "d">>} |->
     str_strip(str_lower(h))]

\* headline.str.lower().str.strip()
headline_normalized(h) ==
  IF h \in DOMAIN KeyOfHeadline THEN KeyOfHeadline[h] ELSE str_strip(str_lower(h))

(***************************************************************************)
(* Validity of a candidate headline text in the three extractors           *)
(***************************************************************************)
\* `sub in text` for two strings
Contains(text, sub) ==
  \E i \in 0..(Len(text) - Len(sub)) : SubSeq(text, i + 1, i + Len(sub)) = sub

\* len(text.split()): the number of maximal runs of non-blank characters
split_count(text) ==
  Cardinality({i \in 1..Len(text) :
                 ~IsSpace(text[i]) /\ (i = 1 \/ IsSpace(text[i - 1]))})

\* element.get_text(strip=True): an element is the sequence of its text
\* nodes in document order; every node is stripped with str.strip(), the
\* nodes that are empty then are left out, and the rest is joined with
\* nothing in between.
RECURSIVE get_text_strip(_)
get_text_strip(element) ==
  IF element = <<>> THEN <<>>
  ELSE str_strip(Head(element)) \o get_text_strip(Tail(element))

\* exclude_keywords of scrape_headlines_nbcnews_latest (lines 211-216)
exclude_keywords_latest ==
  {<<"p", "r", "o", "m", "o", "t", "i", "o", "n">>,
   <<"s", "p", "o", "n", "s", "o", "r", "e", "d">>,
   <<"a", "d", "v", "e", "r", "t", "i", "s", "e", "m", "e", "n", "t">>,
   <<"a", "d", "v", "e", "r", "t">>,
   <<"c", "o", "m", "m", "e", "r", "c", "i", "a", "l">>,
   <<"g", "e", "t", "t", "y", " ", "i", "m", "a", "g", "e", "s">>,
   <<"v", "i", "a", " ", "a", "p">>,
   <<"v", "i", "a", " ", "r", "e", "u", "t", "e", "r", "s">>,
   <<"v", "i", "a", " ", "g", "e", "t", "t", "y">>,
   <<"p", "h", "o", "t", "o", " ", "b", "y">>,
   <<"p", "h", "o", "t", "o", "g", "r", "a", "p", "h", "e", "r">>,
   <<"c", "r", "e", "d", "i", "t", ":">>,
   <<"i", "m", "a", "g", "e", " ", "c", "r", "e", "d", "i", "t">>,
   <<"n", "b", "c", " ", "n", "e", "w", "s", " ", "s", "i", "t", "e", "m", "a", "p">>,
   <<"s", "i", "t", "e", " ", "m", "a", "p">>,
   <<"c", "l", "o", "s", "e", "d", " ", "c", "a", "p", "t", "i", "o", "n", "i", "n", "g">>,
   <<"l", "o", "a", "d", " ", "m", "o", "r", "e">>}

\* exclude_keywords of scrape_headlines_nbcnews (lines 477-505)
exclude_keywords_nbc ==
  {<<"p", "r", "o", "m", "o", "t", "i", "o", "n">>,
   <<"s", "p", "o", "n", "s", "o", "r", "e", "d">>,
   <<"a", "d", "v", "e", "r", "t", "i", "s", "e", "m", "e", "n", "t">>,
   <<"a", "d", "v", "e", "r", "t">>,
   <<"c", "o", "m", "m", "e", "r", "c", "i", "a", "l">>,
   <<"g", "e", "t", "t", "y", " ", "i", "m", "a", "g", "e", "s">>,
   <<"v", "i", "a", " ", "a", "p">>,
   <<"v", "i", "a", " ", "r", "e", "u", "t", "e", "r", "s">>,
   <<"v", "i", "a", " ", "g", "e", "t", "t", "y">>,
   <<"p", "h", "o", "t", "o", " ", "b", "y">>,
   <<"p", "h", "o", "t", "o", "g", "r", "a", "p", "h", "e", "r">>,
   <<"c", "r", "e", "d", "i", "t", ":">>,
   <<"i", "m", "a", "g", "e", " ", "c", "r", "e", "d", "i", "t">>,
   <<"n", "b", "c", " ", "n", "e", "w", "s", " ", "s", "i", "t", "e", "m", "a", "p">>,
   <<"s", "i", "t", "e", " ", "m", "a", "p">>,
   <<"c", "l", "o", "s", "e", "d", " ", "c", "a", "p", "t", "i", "o", "n", "i", "n", "g">>,
   <<"c", "u", "l", "t", "u", "r", "e", " ", "a", "n", "d", " ", "t", "r", "e", "n", "d", "s">>,
   <<"b", "u", "s", "i", "n", "e", "s", "s", " ", "a", "n", "d", " ", "t", "e", "c", "h">>,
   <<"h", "e", "a", "l", "t", "h", " ", "a", "n", "d", " ", "s", "c", "i", "e", "n", "c", "e">>,
   <<"m", "o", "s", "t", " ", "p", "o", "p", "u", "l", "a", "r">>,
   <<"e", "d", "i", "t", "o", "r", "s", "'", " ", "p", "i", "c", "k", "s">>,
   <<"d", "a", "l", "l", "a", "s", "-", "f", "o", "r", "t", " ", "w", "o", "r", "t", "h">>,
   <<"w", "a", "s", "h", "i", "n", "g", "t", "o", "n", ",", " ", "d", ".", "c", ".">>,
   <<"n", "b", "c", " ", "a", "s", "i", "a", "n", " ", "a", "m", "e", "r", "i", "c", "a">>,
   <<"s", "p", "e", "c", "i", "a", "l", " ", "f", "e", "a", "t", "u", "r", "e", "s">>,
   <<"n", "e", "x", "t", " ", "s", "t", "e", "p", "s", " ", "f", "o", "r", " ", "v", "e", "t", "s">>,
   <<"n", "b", "c", " ", "n", "e", "w", "s", " ", "s", "i", "t", "e", " ", "m", "a", "p">>,
   <<"l", "i", "v", "e">>,
   <<"t", "r", "u", "m", "p", " ", "a", "d", "m", "i", "n">>,
   <<"s", "h", "e", "r", "r", "o", "n", "e", " ", "m", "o", "o", "r", "e", " ", "c", "h", "a", "r", "g", "e", "s">>,
   <<"w", "a", "s", "h", "i", "n", "g", "t", "o", "n", " ", "f", "l", "o", "o", "d", "s">>,
   <<"t", "i", "n", "a", " ", "p", "e", "t", "e", "r", "s", " ", "p", "a", "r", "d", "o", "n">>,
   <<"h", "o", "u", "s", "e", " ", "o", "v", "e", "r", "s", "i", "g", "h", "t", " ", "c", "o", "m", "m", "i", "t", "t", "e", "e">>,
   <<"a", "n", "d", "r", "e", "w", " ", "c", "a", "b", "a", "l", "l", "e", "r", "o", "-", "r", "e", "y", "n", "o", "l", "d", "s">>,
   <<"s", "a", "u", "l", " ", "l", "o", "e", "b">>,
   <<"j", "o", "e", " ", "r", "a", "e", "d", "l", "e">>,
   <<"a", "l", "e", "x", " ", "b", "r", "a", "n", "d", "o", "n">>,
   <<"w", "i", "n", " ", "m", "c", "n", "a", "m", "e", "e">>,
   <<"l", "u", "k", "e", " ", "h", "a", "l", "e", "s">>,
   <<"a", "n", "a", "t", "o", "l", "i", "i", " ", "s", "t", "e", "p", "a", "n", "o", "v">>,
   <<"a", "l", " ", "d", "r", "a", "g", "o">>,
   <<"a", "l", "b", "e", "r", "t", "o", " ", "c", "a", "s", "s", "a", "n", "i">>,
   <<"t", "o", "b", "i", "a", "s", " ", "s", "c", "h", "w", "a", "r", "t", "z">>,
   <<"m", "y", "k", "a", "l", " ", "m", "c", "e", "l", "d", "o", "w", "n", "e", "y">>,
   <<"u", "s", "a", " ", "t", "o", "d", "a", "y", " ", "n", "e", "t", "w", "o", "r", "k">>,
   <<"v", "i", "a", " ", "i", "m", "a", "g", "n">>,
   <<"t", "o", "m", "m", "y", " ", "f", "o", "r", "b", "e", "s">>,
   <<"b", "a", "n", "g", "o", " ", "s", "t", "u", "d", "i", "o", "s">>,
   <<"j", "u", "s", "t", "i", "n", "e", " ", "g", "o", "o", "d", "e">>,
   <<"a", "n", "t", "h", "o", "n", "y", " ", "b", "e", "h", "a", "r">>,
   <<"s", "i", "p", "a", " ", "u", "s", "a">>,
   <<"s", "t", "u", "a", "r", "t", " ", "c", "a", "h", "i", "l", "l">>,
   <<"t", "h", "e", " ", "b", "o", "s", "t", "o", "n", " ", "h", "e", "r", "a", "l", "d">>,
   <<"v", "i", "a", " ", "a", "p", ",", " ", "p", "o", "o", "l">>,
   <<"m", "i", "n", "h", " ", "c", "o", "n", "n", "o", "r", "s">>,
   <<"c", "h", "a", "r", "l", "e", "s", " ", "k", "r", "u", "p", "a">>,
   <<"k", "e", "v", "i", "n", " ", "s", "a", "b", "i", "t", "u", "s">>,
   <<"g", "a", "r", "e", "t", "h", " ", "c", "a", "t", "t", "e", "r", "m", "o", "l", "e">>,
   <<"t", "a", "s", " ", "r", "i", "g", "h", "t", "s", " ", "m", "a", "n", "a", "g", "e", "m", "e", "n", "t">>,
   <<"a", "b", "d", "a", "l", "h", "k", "e", "m", " ", "a", "b", "u", " ", "r", "i", "a", "s", "h">>,
   <<"a", "n", "a", "d", "o", "l", "u", " ", "v", "i", "a", " ", "g", "e", "t", "t", "y">>,
   <<"v", "i", "v", "i", "a", "n", " ", "l", "e">>,
   <<"s", "m", "i", "r", "n", "o", "f", "f">>,
   <<"w", "i", "l", "l", "i", "a", "m", "s", " ", "s", "o", "n", "o", "m", "a">>,
   <<"q", "u", "i", "k", "s", "i", "l", "v", "e", "r">>,
   <<"a", "c", "n", "e", " ", "s", "t", "u", "d", "i", "o", "s">>,
   <<"a", "m", "a", "z", "o", "n">>,
   <<"h", "a", "r", "r", "y", " ", "r", "a", "b", "i", "n", "o", "w", "i", "t", "z">>,
   <<"m", "i", "c", "h", "a", "e", "l", " ", "o", "w", "e", "n", "s">>,
   <<"r", "i", "c", "k", " ", "e", "g", "a", "n">>,
   <<"p", "o", "o", "l", " ", "v", "i", "a", " ", "a", "p">>,
   <<"c", "o", "u", "r", "t", "e", "s", "y", " ", "o", "f">>,
   <<"/", " ", "n", "b", "c">>,
   <<"n", "b", "c", " ", "n", "e", "w", "s">>,
   <<"n", "b", "c">>,
   <<"t", "h", "e", " ", "i", "n", "j", "u", "r", "y", " ", "a", "n", "a", "l", "y", "s", "t", "s">>,
   <<"f", "a", "l", "c", "o", "n", "s", " ", "v", "s", " ", "b", "u", "c", "c", "a", "n", "e", "e", "r", "s", " ", "r", "e", "c", "a", "p">>,
   <<"t", "r", "i", "s", "t", "a", "n", " ", "j", "a", "r", "r", "y", " ", "t", "r", "a", "d", "e">>,
   <<"f", "r", "e", "d", "d", "i", "e", " ", "k", "i", "t", "c", "h", "e", "n", "s", " ", "f", "i", "r", "e", "d">>,
   <<"t", ".", "j", ".", " ", "w", "a", "t", "t", " ", "i", "n", "j", "u", "r", "y">>,
   <<"a", "r", "t", "i", "f", "i", "c", "i", "a", "l", " ", "i", "n", "t", "e", "l", "l", "i", "g", "e", "n", "c", "e">>,
   <<"n", "a", "s", "c", "a", "r", " ", "a", "n", "t", "i", "t", "r", "u", "s", "t", " ", "s", "e", "t", "t", "l", "e", "m", "e", "n", "t">>,
   <<"g", "a", "s", " ", "e", "x", "p", "l", "o", "s", "i", "o", "n">>,
   <<"l", "i", "v", "e", " ", "h", "a", "n", "d", " ", "g", "r", "e", "n", "a", "d", "e">>,
   <<"o", "b", "a", "m", "a", "c", "a", "r", "e", " ", "p", "r", "e", "m", "i", "u", "m">>,
   <<"r", "e", "p", "u", "b", "l", "i", "c", "a", "n", "-", "l", "e", "d", " ", "h", "o", "u", "s", "e">>,
   <<"j", "u", "s", "t", "i", "c", "e", " ", "d", "e", "p", "a", "r", "t", "m", "e", "n", "t">>,
   <<"t", "h", "e", " ", "r", "i", "s", "k", " ", "o", "f", " ", "a", "i">>,
   <<"a", " ", "h", "e", "a", "l", "t", "h", " ", "c", "a", "r", "e">>,
   <<"p", "a", "s", "t", "o", "r", "s", " ", "a", "n", "d", " ", "p", "r", "e", "y">>,
   <<"u", ".", "s", ".", " ", "o", "f", "f", "e", "r", "s">>,
   <<"i", "r", "a", "n", " ", "a", "r", "r", "e", "s", "t", "s">>,
   <<"k", "i", "n", "g", " ", "c", "h", "a", "r", "l", "e", "s", " ", "t", "o">>,
   <<"g", "e", "r", "m", "a", "n", "y", " ", "s", "u", "m", "m", "o", "n", "s">>,
   <<"f", "e", "d", "e", "r", "a", "l", " ", "r", "e", "s", "e", "r", "v", "e">>,
   <<"s", "e", "n", "a", "t", "o", "r", "s", " ", "a", "s", "k">>,
   <<"m", "o", "n", "t", "h", "l", "y", " ", "t", "a", "r", "i", "f", "f">>,
   <<"r", "e", "d", "d", "i", "t", " ", "c", "h", "a", "l", "l", "e", "n", "g", "e", "s">>,
   <<"t", "r", "i", "p", "l", "e", "-", "n", "e", "g", "a", "t", "i", "v", "e", " ", "b", "r", "e", "a", "s", "t">>,
   <<"f", "d", "a", " ", "p", "r", "o", "p", "o", "s", "e", "s">>,
   <<"e", "u", "r", "o", "v", "i", "s", "i", "o", "n", " ", "c", "h", "a", "m", "p", "i", "o", "n">>,
   <<"m", "a", "r", "v", "e", "l", "o", "u", "s", " ", "m", "r", "s", ".", " ", "m", "a", "i", "s", "e", "l">>,
   <<"t", "a", "l", "k", "i", "n", "g", " ", "s", "h", "o", "p">>,
   <<"i", "'", "v", "e", " ", "t", "e", "s", "t", "e", "d">>,
   <<"b", "e", "e", "f", " ", "t", "a", "l", "l", "o", "w">>,
   <<"s", "c", "h", "m", "i", "d", "t", "'", "s">>,
   <<"s", "a", "l", "t", " ", "&", " ", "s", "t", "o", "n", "e">>,
   <<"n", "a", "t", "i", "v", "e">>,
   <<"j", "e", "l", "l", "y", " ", "r", "o", "l", "l", " ", "s", "a", "y", "s">>}

\* Line 524: the image-credit patterns of the NBC homepage extractor
credit_patterns ==
  {<<" ", "/", " ">>,
   <<" ", "v", "i", "a", " ">>,
   <<"p", "h", "o", "t", "o", " ", "b", "y">>,
   <<"c", "r", "e", "d", "i", "t", ":">>,
   <<"g", "e", "t", "t", "y">>,
   <<"a", "p", " ", "p", "h", "o", "t", "o">>}

\* Line 529: the words whose absence marks a short text as a bare name
common_words ==
  {<<"t", "h", "e">>,
   <<"a">>,
   <<"a", "n">>,
   <<"i", "n">>,
   <<"o", "n">>,
   <<"a", "t">>,
   <<"t", "o">>,
   <<"f", "o", "r">>,
   <<"o", "f">>,
   <<"a", "n", "d">>,
   <<"o", "r">>}

\* Fox homepage, lines 91, 105, 119, 133, 145:
\* `headline_text and len(headline_text) > 10`
fox_basic_validation(text) == Len(text) # 0 /\ Len(text) > 10

\* is_valid_headline of scrape_headlines_nbcnews_latest (lines 218-228)
is_valid_headline_latest(text) ==
  IF Len(text) = 0 \/ Len(text) < 15 \/ Len(text) > 200 THEN FALSE
  ELSE LET text_lower == str_strip(str_lower(text))
       IN IF ~Contains(text_lower, <<" ">>) THEN FALSE
          ELSE IF \E keyword \in exclude_keywords_latest :
                    Contains(text_lower, keyword)
               THEN FALSE
               ELSE TRUE

\* is_valid_headline of scrape_headlines_nbcnews (lines 507-532)
is_valid_headline_nbc(text) ==
  IF Len(text) = 0 \/ Len(text) < 15 \/ Len(text) > 200 THEN FALSE
  ELSE LET text_lower == str_strip(str_lower(text))
       IN IF ~Contains(text_lower, <<" ">>) THEN FALSE
          ELSE IF \E keyword \in exclude_keywords_nbc :
                    Contains(text_lower, keyword)
               THEN FALSE
          ELSE IF \E pattern \in credit_patterns :
                    Contains(text_lower, pattern)
               THEN FALSE
          ELSE IF /\ split_count(text) <= 3
                  /\ ~(\E word \in common_words : Contains(text_lower, word))
               THEN FALSE
               ELSE TRUE

(***************************************************************************)
(* Frames and files                                                        *)
(***************************************************************************)
DatasetCols == {"headline", "source", "collection_date"}

ReportCols == {"scraping_date", "total_headlines_scraped", "fox_news_count",
               "nbc_news_count", "headlines_added", "duplicates_skipped",
               "dataset_size_before", "dataset_size_after"}

original_dataset_path == "scraped_headlines_data.csv"
integrated_dataset_path == "daily_updated_headlines_data.csv"
report_path == "scraping_report.csv"

Paths == {original_dataset_path, integrated_dataset_path, report_path}

None == <<>>
Some(x) == <<x>>

AbsentFile == [exists |-> FALSE, readable |-> FALSE, cols |-> {}, rows |-> <<>>]

CsvFile(cols, rows) ==
  [exists |-> TRUE, readable |-> TRUE, cols |-> cols, rows |-> rows]

CorruptFile(cols, rows) ==
  [exists |-> TRUE, readable |-> FALSE, cols |-> cols, rows |-> rows]

Project(row, cols) == [c \in cols |-> row[c]]

ProjectRows(rows, cols) == [i \in 1..Len(rows) |-> Project(rows[i], cols)]

\* os.path.exists(path)
path_exists(files, path) == files[path].exists

\* pd.read_csv(path): raises when the file cannot be parsed
read_csv_raises(files, path) == ~files[path].readable

read_csv(files, path) == [cols |-> files[path].cols, rows |-> files[path].rows]

\* df.to_csv(path, index=False) with no other process at the file: the file
\* is opened for writing, which empties it, and the frame is written into it.
to_csv(files, path, cols, rows) ==
  [files EXCEPT ![path] = CsvFile(cols, rows)]

\* The first half of df.to_csv: open(path, 'w') creates the file or cuts it
\* to no bytes.  pd.read_csv of such a file raises EmptyDataError.
TruncatedFile ==
  [exists |-> TRUE, readable |-> FALSE, cols |-> {}, rows |-> <<>>]

\* The characters of the strings that the records hold.
StrChars(s) ==
  CASE s = "FoxNews" -> <<"F", "o", "x", "N", "e", "w", "s">>
    [] s = "NBC" -> <<"N", "B", "C">>
    [] s = "initial" -> <<"i", "n", "i", "t", "i", "a", "l">>
    [] s = "unknown" -> <<"u", "n", "k", "n", "o", "w", "n">>
    [] s = "old" -> <<"o", "l", "d">>
    [] s = "day0" -> <<"d", "a", "y", "0">>
    [] s = "day1" -> <<"d", "a", "y", "1">>
    [] s = "day2" -> <<"d", "a", "y", "2">>
    [] s = "day3" -> <<"d", "a", "y", "3">>
    [] s = "NaN" -> <<>>

\* A missing field as pd.read_csv reads it; to_csv writes it as nothing.
NaN == "NaN"

Digit(n) ==
  CASE n = 0 -> "0" [] n = 1 -> "1" [] n = 2 -> "2" [] n = 3 -> "3"
    [] n = 4 -> "4" [] n = 5 -> "5" [] n = 6 -> "6" [] n = 7 -> "7"
    [] n = 8 -> "8" [] n = 9 -> "9"

RECURSIVE Digits(_)
Digits(n) ==
  IF n < 10 THEN <<Digit(n)>> ELSE Digits(n \div 10) \o <<Digit(n % 10)>>

\* The fields of the line that to_csv writes for a record, in column order.
csv_fields(cols, rec) ==
  IF cols = ReportCols
  THEN <<StrChars(rec.scraping_date), Digits(rec.total_headlines_scraped),
         Digits(rec.fox_news_count), Digits(rec.nbc_news_count),
         Digits(rec.headlines_added), Digits(rec.duplicates_skipped),
         Digits(rec.dataset_size_before), Digits(rec.dataset_size_after)>>
  ELSE <<IF rec.headline = <<NaN>> THEN <<>> ELSE rec.headline,
         StrChars(rec.source), StrChars(rec.collection_date)>>

\* The line of a record: its fields with commas between them and the line
\* break ("\n") at the end.  No field of this module needs quoting.
RECURSIVE csv_line(_)
csv_line(fields) ==
  IF Len(fields) = 1 THEN Head(fields) \o <<"\n">>
  ELSE Head(fields) \o <<",">> \o csv_line(Tail(fields))

\* The fields of a line without its line break, split at the commas.
RECURSIVE split_fields(_)
split_fields(text) ==
  IF \A i \in 1..Len(text) : text[i] # ","
  THEN <<text>>
  ELSE LET i == CHOOSE k \in 1..Len(text) :
                  text[k] = "," /\ \A j \in 1..(k - 1) : text[j] # ","
       IN <<SubSeq(text, 1, i - 1)>>
            \o split_fields(SubSeq(text, i + 1, Len(text)))

\* What is left of the lines of a file behind their first `covered`
\* characters: the rest of the line that is cut, unless only its line break
\* is left (pd.read_csv skips a blank line), and the lines after it.
RECURSIVE lines_behind(_, _)
lines_behind(lines, covered) ==
  IF lines = <<>> \/ covered = 0 THEN lines
  ELSE LET text == csv_line(Head(lines))
       IN IF covered >= Len(text)
          THEN lines_behind(Tail(lines), covered - Len(text))
          ELSE IF covered = Len(text) - 1
               THEN Tail(lines)
               ELSE <<split_fields(SubSeq(text, covered + 1, Len(text) - 1))>>
                      \o Tail(lines)

\* The value pd.read_csv gives the i-th column of a line: NaN when the line
\* has no such field or the field is empty.
field_str(fields, i) ==
  IF i > Len(fields) \/ fields[i] = <<>> THEN NaN
  ELSE CHOOSE str \in {"FoxNews", "NBC", "initial", "unknown", "old",
                        "day0", "day1", "day2", "day3"} :
         StrChars(str) = fields[i]

RECURSIVE field_number(_)
field_number(digits) ==
  IF digits = <<>> THEN 0
  ELSE 10 * field_number(SubSeq(digits, 1, Len(digits) - 1))
         + (CHOOSE n \in 0..9 : Digit(n) = digits[Len(digits)])

field_int(fields, i) ==
  IF i > Len(fields) \/ fields[i] = <<>> THEN NaN
  ELSE field_number(fields[i])

\* The record pd.read_csv makes of a line.
csv_record(cols, fields) ==
  IF cols = ReportCols
  THEN [scraping_date |-> field_str(fields, 1),
        total_headlines_scraped |-> field_int(fields, 2),
        fox_news_count |-> field_int(fields, 3),
        nbc_news_count |-> field_int(fields, 4),
        headlines_added |-> field_int(fields, 5),
        duplicates_skipped |-> field_int(fields, 6),
        dataset_size_before |-> field_int(fields, 7),
        dataset_size_after |-> field_int(fields, 8)]
  ELSE [headline |-> IF fields[1] = <<>> THEN <<NaN>> ELSE fields[1],
        source |-> field_str(fields, 2),
        collection_date |-> field_str(fields, 3)]

RECURSIVE lines_length(_)
lines_length(lines) ==
  IF lines = <<>> THEN 0
  ELSE Len(csv_line(Head(lines))) + lines_length(Tail(lines))

\* The second half of df.to_csv: the header and the lines of the frame are
\* written from the start of the file the process opened.  They replace the
\* front of whatever another process has written into the file since it was
\* opened (a file with the same header), and what lies behind them stays.
write_csv(files, path, cols, rows) ==
  LET current == [i \in 1..Len(files[path].rows) |->
                    csv_fields(cols, files[path].rows[i])]
      written == [i \in 1..Len(rows) |-> csv_fields(cols, rows[i])]
      behind == lines_behind(current, lines_length(written))
  IN [files EXCEPT ![path] =
        CsvFile(cols, rows \o [i \in 1..Len(behind) |->
                                 csv_record(cols, behind[i])])]

RECURSIVE concat(_)
concat(frames) ==
  IF frames = <<>> THEN <<>> ELSE Head(frames) \o concat(Tail(frames))

\* drop_duplicates(subset=['headline_normalized'], keep='first')
RECURSIVE drop_dups_from(_, _)
drop_dups_from(rows, kept) ==
  IF rows = <<>> THEN <<>>
  ELSE LET k == headline_normalized(Head(rows).headline)
       IN IF k \in kept
          THEN drop_dups_from(Tail(rows), kept)
          ELSE <<Head(rows)>> \o drop_dups_from(Tail(rows), kept \cup {k})

RECURSIVE drop_dups_last(_)
drop_dups_last(rows) ==
  IF rows = <<>> THEN <<>>
  ELSE LET k == headline_normalized(Head(rows).headline)
           later == {i \in 2..Len(rows) :
                       headline_normalized(rows[i].headline) = k}
       IN IF later # {}
          THEN drop_dups_last(Tail(rows))
          ELSE <<Head(rows)>> \o drop_dups_last(Tail(rows))

drop_duplicates_keep_last(rows) == drop_dups_last(rows)

drop_duplicates_keep_all(rows) == rows

drop_duplicates(rows) == drop_dups_from(rows, {})

(***************************************************************************)
(* Dataset merger and report ledger                                        *)
(***************************************************************************)
with_collection_date_restamped(frame, sentinel) ==
  [i \in 1..Len(frame.rows) |->
     [headline |-> frame.rows[i].headline,
      source |-> frame.rows[i].source,
      collection_date |-> sentinel]]

\* original_df['collection_date'] = 'initial' / existing_df[...] = 'unknown',
\* then df[['headline', 'source', 'collection_date']]
with_collection_date(frame, sentinel) ==
  [i \in 1..Len(frame.rows) |->
     [headline |-> frame.rows[i].headline,
      source |-> frame.rows[i].source,
      collection_date |->
        IF "collection_date" \in frame.cols
        THEN frame.rows[i].collection_date
        ELSE sentinel]]

has_required_columns(frame) ==
  "headline" \in frame.cols /\ "source" \in frame.cols

load_original_partially_used(files, path) ==
  IF path_exists(files, path) /\ ~read_csv_raises(files, path)
  THEN LET frame == read_csv(files, path)
       IN <<[i \in 1..Len(frame.rows) |->
               [headline |-> IF "headline" \in frame.cols
                             THEN frame.rows[i].headline ELSE <<>>,
                source |-> IF "source" \in frame.cols
                           THEN frame.rows[i].source ELSE "initial",
                collection_date |-> IF "collection_date" \in frame.cols
                                    THEN frame.rows[i].collection_date
                                    ELSE "initial"]]>>
  ELSE <<>>

\* The frames that step 1 appends to all_datasets (none or one).
load_original(files, path) ==
  IF path_exists(files, path)
  THEN IF read_csv_raises(files, path)
       THEN <<>>
       ELSE IF has_required_columns(read_csv(files, path))
            THEN <<with_collection_date(read_csv(files, path), "initial")>>
            ELSE <<>>
  ELSE <<>>

\* The frames that step 2 appends to all_datasets (none or one).
load_integrated(files, path) ==
  IF path_exists(files, path)
  THEN IF read_csv_raises(files, path)
       THEN <<>>
       ELSE IF has_required_columns(read_csv(files, path))
            THEN <<with_collection_date(read_csv(files, path), "unknown")>>
            ELSE <<>>
  ELSE <<>>

normalized_set(rows) ==
  {headline_normalized(rows[i].headline) : i \in 1..Len(rows)}

count_source(rows, src) ==
  Cardinality({i \in 1..Len(rows) : rows[i].source = src})

report_stats_before_is_after(daily, existing_df_before, combined_df_after) ==
  LET total_scraped == Len(daily)
      headlines_added ==
        IF existing_df_before # None
        THEN Cardinality(normalized_set(daily)
                           \ normalized_set(existing_df_before[1]))
        ELSE total_scraped
      duplicates_found ==
        IF existing_df_before # None
        THEN total_scraped - headlines_added
        ELSE 0
      dataset_size_before ==
        IF existing_df_before # None THEN Len(existing_df_before[1]) ELSE 0
      dataset_size_after ==
        IF combined_df_after # None
        THEN Len(combined_df_after[1])
        ELSE headlines_added
  IN [headlines_added |-> headlines_added,
      duplicates_skipped |-> duplicates_found,
      dataset_size_before |-> dataset_size_after,
      dataset_size_after |-> dataset_size_after]

\* Lines 775-793: the statistics of one report row.
report_stats(daily, existing_df_before, combined_df_after) ==
  LET total_scraped == Len(daily)
      headlines_added ==
        IF existing_df_before # None
        THEN Cardinality(normalized_set(daily)
                           \ normalized_set(existing_df_before[1]))
        ELSE total_scraped
      duplicates_found ==
        IF existing_df_before # None
        THEN total_scraped - headlines_added
        ELSE 0
      dataset_size_before ==
        IF existing_df_before # None THEN Len(existing_df_before[1]) ELSE 0
      dataset_size_after ==
        IF combined_df_after # None
        THEN Len(combined_df_after[1])
        ELSE headlines_added
  IN [headlines_added |-> headlines_added,
      duplicates_skipped |-> duplicates_found,
      dataset_size_before |-> dataset_size_before,
      dataset_size_after |-> dataset_size_after]

report_entry(daily, existing_df_before, combined_df_after, today) ==
  LET st == report_stats(daily, existing_df_before, combined_df_after)
  IN [scraping_date |-> today,
      total_headlines_scraped |-> Len(daily),
      fox_news_count |-> count_source(daily, "FoxNews"),
      nbc_news_count |-> count_source(daily, "NBC"),
      headlines_added |-> st.headlines_added,
      duplicates_skipped |-> st.duplicates_skipped,
      dataset_size_before |-> st.dataset_size_before,
      dataset_size_after |-> st.dataset_size_after]

\* Lines 807-817: the rows of the report that is saved.
updated_report(files, path, entry) ==
  IF path_exists(files, path)
  THEN IF read_csv_raises(files, path)
       THEN <<entry>>
       ELSE Append(read_csv(files, path).rows, entry)
  ELSE <<entry>>

\* io names the write that fails with OSError when the file is opened
\* ("none": every write succeeds).  Result: the files afterwards and
\* whether an exception left the function.
update_scraping_report(files, daily, before, after, path, today, io) ==
  LET entry == report_entry(daily, before, after, today)
      rows == updated_report(files, path, entry)
  IN IF io = "report"
     THEN [fs |-> files, raised |-> TRUE]
     ELSE [fs |-> to_csv(files, path, ReportCols, rows), raised |-> FALSE]

no_new_headlines_ignored(daily) == FALSE

\* Line 855: if len(daily_headlines) == 0: return None
no_new_headlines(daily) == Len(daily) = 0

save_path_original(orig_path, integ_path) == orig_path

\* Line 951: the path the merged dataset is saved to.
save_path(orig_path, integ_path) == integ_path

integrate_rolled_back(files, daily, op, ip, rp, today, io) ==
  IF no_new_headlines(daily)
  THEN [fs |-> files, raised |-> FALSE]
  ELSE
    LET loaded == load_original(files, op)
                    \o load_integrated(files, ip)
        existing_combined_df ==
          IF loaded # <<>> THEN Some(drop_duplicates(concat(loaded)))
                           ELSE None
        all_datasets == Append(loaded, daily)
    IN IF all_datasets # <<>>
       THEN
         LET combined_df_before == concat(all_datasets)
             combined_df_after == drop_duplicates(combined_df_before)
         IN IF io = "integrated" \/ io = "report"
            THEN [fs |-> files, raised |-> TRUE]
            ELSE update_scraping_report(
                   to_csv(files, save_path(op, ip),
                          DatasetCols, combined_df_after),
                   daily, existing_combined_df, Some(combined_df_after),
                   rp, today, io)
       ELSE
         IF io = "integrated" \/ io = "report"
         THEN [fs |-> files, raised |-> TRUE]
         ELSE update_scraping_report(
                to_csv(files, ip, DatasetCols, daily),
                daily, None, Some(daily), rp, today, io)

integrate_with_existing_dataset(files, daily, op, ip, rp, today, io) ==
  IF no_new_headlines(daily)
  THEN [fs |-> files, raised |-> FALSE]
  ELSE
    LET loaded == load_original(files, op)
                    \o load_integrated(files, ip)
        existing_combined_df ==
          IF loaded # <<>> THEN Some(drop_duplicates(concat(loaded)))
                           ELSE None
        all_datasets == Append(loaded, daily)
    IN IF all_datasets # <<>>
       THEN
         LET combined_df_before == concat(all_datasets)
             combined_df_after == drop_duplicates(combined_df_before)
         IN IF io = "integrated"
            THEN [fs |-> files, raised |-> TRUE]
            ELSE update_scraping_report(
                   to_csv(files, save_path(op, ip),
                          DatasetCols, combined_df_after),
                   daily, existing_combined_df, Some(combined_df_after),
                   rp, today, io)
       ELSE
         IF io = "integrated"
         THEN [fs |-> files, raised |-> TRUE]
         ELSE update_scraping_report(
                to_csv(files, ip, DatasetCols, daily),
                daily, None, Some(daily), rp, today, io)

(***************************************************************************)
(* Balanced sampler (collect_daily_headlines, lines 680-747)               *)
(***************************************************************************)
max_headlines(fox, nbc) == IF Len(fox) <= Len(nbc) THEN Len(nbc) ELSE Len(fox)

min_headlines(fox, nbc) == IF Len(fox) <= Len(nbc) THEN Len(fox) ELSE Len(nbc)

random_sample_with_replacement(population, k) ==
  {[i \in 1..k |-> population[idx[i]]] :
     idx \in [1..k -> 1..Len(population)]}

\* random.sample(population, k): k elements at pairwise different positions,
\* in any order.
random_sample(population, k) ==
  {[i \in 1..k |-> population[idx[i]]] :
     idx \in {f \in [1..k -> 1..Len(population)] :
                \A i, j \in 1..k : i # j => f[i] # f[j]}}

sampled_all(scraped, n) == {scraped}

sampled(scraped, n) ==
  IF Len(scraped) > n THEN random_sample(scraped, n) ELSE {scraped}

tagged(scraped, src, today) ==
  [i \in 1..Len(scraped) |->
     [headline |-> scraped[i], source |-> src, collection_date |-> today]]

balanced_batches_nbc_first(fox, nbc, today) ==
  IF min_headlines(fox, nbc) = 0
  THEN {<<>>}
  ELSE {tagged(n, "NBC", today) \o tagged(f, "FoxNews", today) :
          f \in sampled(fox, min_headlines(fox, nbc)),
          n \in sampled(nbc, min_headlines(fox, nbc))}

\* The batches collect_daily_headlines can return for the two scraped lists.
balanced_batches(fox, nbc, today) ==
  IF min_headlines(fox, nbc) = 0
  THEN {<<>>}
  ELSE {tagged(f, "FoxNews", today) \o tagged(n, "NBC", today) :
          f \in sampled(fox, min_headlines(fox, nbc)),
          n \in sampled(nbc, min_headlines(fox, nbc))}

\* The days the clock is followed over, numbered from the day of Init on.
Days == {1, 2}

\* What a call of datetime.now() can give when the last call gave `day`:
\* the same day, or a later one when midnight has passed in between (the
\* clock never runs backwards).
datetime_now(day) == {d \in Days : d >= day}

\* .strftime('%Y-%m-%d')
strftime(day) == "day" \o ToString(day)

(***************************************************************************)
(* Inputs: scraped lists and the files found on disk before the first run  *)
(***************************************************************************)
SeqsUpTo(S, n) == UNION {[1..k -> S] : k \in 0..n}

FoxTexts == {<<"A", "b">>, <<"c", "d">>}
NbcTexts == {<<"a", "b">>}

FoxScrapes == SeqsUpTo(FoxTexts, MaxScrape)
NbcScrapes == SeqsUpTo(NbcTexts, MaxScrape)

OrigRec1 ==
  [headline |-> <<"a", "b", " ">>, source |-> "NBC", collection_date |-> "old"]

OrigRec2 ==
  [headline |-> <<"E", "f">>, source |-> "FoxNews", collection_date |-> "old"]

IntegRec1 ==
  [headline |-> <<"A", "B">>, source |-> "FoxNews",
   collection_date |-> "day0"]

IntegRec2 ==
  [headline |-> <<" ", "c", "d">>, source |-> "NBC",
   collection_date |-> "day0"]

NoDateCols == {"headline", "source"}
NoSourceCols == {"headline", "collection_date"}

\* The original store as a run can find it: absent, complete (with a
\* repeated record), without the optional collection_date, without the
\* required source, unparsable.
OriginalFiles ==
  {AbsentFile,
   CsvFile(DatasetCols, <<OrigRec1, OrigRec2, OrigRec1>>),
   CsvFile(NoDateCols, ProjectRows(<<OrigRec1, OrigRec2>>, NoDateCols)),
   CsvFile(NoSourceCols, ProjectRows(<<OrigRec1>>, NoSourceCols)),
   CorruptFile(DatasetCols, <<OrigRec2>>)}

IntegratedFiles ==
  {AbsentFile,
   CsvFile(DatasetCols, <<>>),
   CsvFile(DatasetCols, <<IntegRec1, IntegRec2>>),
   CsvFile(NoDateCols, ProjectRows(<<IntegRec2>>, NoDateCols)),
   CsvFile(NoSourceCols, ProjectRows(<<IntegRec2>>, NoSourceCols)),
   CorruptFile(DatasetCols, <<IntegRec1>>)}

OldReportRow ==
  [scraping_date |-> "day0", total_headlines_scraped |-> 2,
   fox_news_count |-> 1, nbc_news_count |-> 1, headlines_added |-> 2,
   duplicates_skipped |-> 0, dataset_size_before |-> 0,
   dataset_size_after |-> 2]

ReportFiles ==
  {AbsentFile, CsvFile(ReportCols, <<OldReportRow>>),
   CorruptFile(ReportCols, <<OldReportRow>>)}

InitFiles ==
  {[p \in Paths |->
      IF p = original_dataset_path THEN o
      ELSE IF p = integrated_dataset_path THEN g ELSE r] :
     o \in OriginalFiles, g \in IntegratedFiles,
     r \in ReportFiles}

IoOutcomes == {"none", "integrated", "report"}

(***************************************************************************)
(* Runs of main()                                                          *)
(***************************************************************************)
\* No scrape function is being followed step by step.
NoScrapeCall ==
  /\ scraper = "none"
  /\ max_retries = 0
  /\ attempt = 0
  /\ headlines = <<>>
  /\ seen = {}
  /\ events = <<>>
  /\ returned = None
  /\ page_sources = <<>>
  /\ max_load_more_clicks = 0
  /\ click_num = 0

\* No validity predicate is being applied.
\* main() is not being run by several processes.
NoConcurrentRuns == process = <<>>

NoValidCall ==
  /\ headline_text = <<>>
  /\ valid = None

Init ==
  /\ fs \in InitFiles
  /\ clock = 1
  /\ pc = "idle"
  /\ run = 0
  /\ fox_headlines = <<>>
  /\ nbc_headlines = <<>>
  /\ daily_headlines = <<>>
  /\ exit_status = -1
  /\ NoScrapeCall
  /\ NoValidCall
  /\ NoConcurrentRuns

\* main() is entered; collect_daily_headlines reads the clock for
\* target_date (line 660) and scrapes Fox News (line 670).
ScrapeFox ==
  /\ pc = "idle"
  /\ run < MaxRuns
  /\ run' = run + 1
  /\ clock' \in datetime_now(clock)
  /\ \E h \in FoxScrapes : fox_headlines' = h
  /\ nbc_headlines' = <<>>
  /\ daily_headlines' = <<>>
  /\ exit_status' = -1
  /\ pc' = "cooldown"
  /\ UNCHANGED fs
  /\ UNCHANGED <<scrapeVars, validVars, raceVars>>

\* time.sleep(2) between the two sources (line 674).
Cooldown ==
  /\ pc = "cooldown"
  /\ pc' = "nbc"
  /\ UNCHANGED <<fs, clock, run, fox_headlines, nbc_headlines,
                 daily_headlines, exit_status>>
  /\ UNCHANGED <<scrapeVars, validVars, raceVars>>

\* collect_daily_headlines scrapes NBC News (line 677).
ScrapeNbc ==
  /\ pc = "nbc"
  /\ \E h \in NbcScrapes : nbc_headlines' = h
  /\ pc' = "balance"
  /\ UNCHANGED <<fs, clock, run, fox_headlines, daily_headlines,
                 exit_status>>
  /\ UNCHANGED <<scrapeVars, validVars, raceVars>>

\* Lines 680-747: the balanced batch is built, every record dated with
\* target_date (lines 720, 726), and returned to main().
Balance ==
  /\ pc = "balance"
  /\ daily_headlines' \in
       balanced_batches(fox_headlines, nbc_headlines, strftime(clock))
  /\ pc' = "collected"
  /\ UNCHANGED <<fs, clock, run, fox_headlines, nbc_headlines, exit_status>>
  /\ UNCHANGED <<scrapeVars, validVars, raceVars>>

main_status_always_failure(raised) == IF raised THEN 1 ELSE 1

\* main(): `return 0` at the end of the try block (line 1011), `return 1` in
\* `except Exception` (line 1017).
main_status(raised) == IF raised THEN 1 ELSE 0

\* main(), lines 1003-1004 and 1011/1017: the batch is integrated;
\* update_scraping_report, when the integration gets as far as calling it,
\* reads the clock for the date of its row (line 768).
Integrate ==
  /\ pc = "collected"
  /\ Len(daily_headlines) > 0
  /\ \E io \in IoOutcomes :
       /\ clock' \in IF io = "integrated" THEN {clock} ELSE datetime_now(clock)
       /\ LET res == integrate_with_existing_dataset(
                       fs, daily_headlines, original_dataset_path,
                       integrated_dataset_path, report_path,
                       strftime(clock'), io)
          IN /\ fs' = res.fs
             /\ exit_status' = main_status(res.raised)
  /\ pc' = "idle"
  /\ fox_headlines' = <<>>
  /\ nbc_headlines' = <<>>
  /\ UNCHANGED <<run, daily_headlines>>
  /\ UNCHANGED <<scrapeVars, validVars, raceVars>>

\* main(), lines 1005-1011: nothing was collected.
NoIntegrate ==
  /\ pc = "collected"
  /\ ~(Len(daily_headlines) > 0)
  /\ exit_status' = main_status(FALSE)
  /\ pc' = "idle"
  /\ fox_headlines' = <<>>
  /\ nbc_headlines' = <<>>
  /\ UNCHANGED <<fs, clock, run, daily_headlines>>
  /\ UNCHANGED <<scrapeVars, validVars, raceVars>>

Next ==
  \/ ScrapeFox
  \/ Cooldown
  \/ ScrapeNbc
  \/ Balance
  \/ Integrate
  \/ NoIntegrate

Spec == Init /\ [][Next]_vars

(***************************************************************************)
(* Direct calls of integrate_with_existing_dataset with any batch          *)
(***************************************************************************)
BatchRecs ==
  {[headline |-> <<"A", "b">>, source |-> "FoxNews",
    collection_date |-> strftime(1)],
   [headline |-> <<"a", "b">>, source |-> "NBC",
    collection_date |-> strftime(1)],
   [headline |-> <<"c", "d">>, source |-> "FoxNews",
    collection_date |-> strftime(1)],
   [headline |-> <<"g", "h">>, source |-> "NBC",
    collection_date |-> strftime(1)]}

NoHeadlineCols == {"source", "collection_date"}

\* The stores as a direct call can find them: those of InitFiles, and
\* datasets without the required headline column.
MergeFiles ==
  {[p \in Paths |->
      IF p = original_dataset_path THEN o
      ELSE IF p = integrated_dataset_path THEN g ELSE r] :
     o \in OriginalFiles
            \cup {CsvFile(NoHeadlineCols,
                          ProjectRows(<<OrigRec2>>, NoHeadlineCols))},
     g \in IntegratedFiles
            \cup {CsvFile(NoHeadlineCols,
                          ProjectRows(<<IntegRec1>>, NoHeadlineCols))},
     r \in ReportFiles}

InitMerge ==
  /\ fs \in MergeFiles
  /\ clock = 1
  /\ pc = "call"
  /\ run = 1
  /\ fox_headlines = <<>>
  /\ nbc_headlines = <<>>
  /\ daily_headlines \in SeqsUpTo(BatchRecs, MaxBatch)
  /\ exit_status = -1
  /\ NoScrapeCall
  /\ NoValidCall
  /\ NoConcurrentRuns

CallIntegrate ==
  /\ pc = "call"
  /\ \E io \in IoOutcomes :
       /\ clock' \in IF io = "integrated" \/ no_new_headlines(daily_headlines)
                     THEN {clock}
                     ELSE datetime_now(clock)
       /\ LET res == integrate_with_existing_dataset(
                       fs, daily_headlines, original_dataset_path,
                       integrated_dataset_path, report_path,
                       strftime(clock'), io)
          IN /\ fs' = res.fs
             /\ pc' = IF res.raised THEN "raised" ELSE "returned"
  /\ UNCHANGED <<run, fox_headlines, nbc_headlines, daily_headlines,
                 exit_status>>
  /\ UNCHANGED <<scrapeVars, validVars, raceVars>>

NextMerge == CallIntegrate

SpecMerge == InitMerge /\ [][NextMerge]_vars

(***************************************************************************)
(* Vocabulary of the properties                                            *)
(***************************************************************************)
Key(rec) == headline_normalized(rec.headline)

\* A store that holds a dataset: absent (the empty dataset) or a readable
\* file with the headline and source columns.
IsDataset(file) ==
  \/ ~file.exists
  \/ file.readable /\ {"headline", "source"} \subseteq file.cols

\* The records of a dataset store, a missing collection_date read as the
\* sentinel.
Records(file, sentinel) ==
  IF ~file.exists THEN <<>>
  ELSE [i \in 1..Len(file.rows) |->
          [headline |-> file.rows[i].headline,
           source |-> file.rows[i].source,
           collection_date |->
             IF "collection_date" \in DOMAIN file.rows[i]
             THEN file.rows[i].collection_date ELSE sentinel]]

\* The positions of u that hold the first record of their canonical key.
FirstOccurrences(u) ==
  {i \in 1..Len(u) : \A j \in 1..(i - 1) : Key(u[j]) # Key(u[i])}

\* The n-th smallest element of a set of positions.
NthOf(I, n) == CHOOSE i \in I : Cardinality({j \in I : j <= i}) = n

\* u restricted to the positions I, order kept.
Restrict(u, I) == [n \in 1..Cardinality(I) |-> u[NthOf(I, n)]]

NoDuplicateKeys(rows) ==
  \A i, j \in 1..Len(rows) : i # j => Key(rows[i]) # Key(rows[j])

Union3(files, batch) ==
  Records(files[original_dataset_path], "initial")
    \o Records(files[integrated_dataset_path], "unknown")
    \o batch

\* C1: for dataset stores and a non-empty batch, the integrated dataset
\* written by integrate_with_existing_dataset is original, then
\* prior-integrated, then batch, with only the first record of each
\* canonical key kept, in that order.
C1_MergeKeepsFirst ==
  [][(/\ pc = "call" /\ pc' = "returned"
      /\ daily_headlines # <<>>
      /\ IsDataset(fs[original_dataset_path])
      /\ IsDataset(fs[integrated_dataset_path]))
     => /\ fs'[integrated_dataset_path].exists
        /\ fs'[integrated_dataset_path].readable
        /\ fs'[integrated_dataset_path].cols = DatasetCols
        /\ fs'[integrated_dataset_path].rows =
             Restrict(Union3(fs, daily_headlines),
                      FirstOccurrences(Union3(fs, daily_headlines)))]_vars

\* The original holds key "ab" (source NBC), the batch holds the same key
\* from FoxNews, and the written dataset keeps the original's record; the
\* batch's "cd" lost against a prior-integrated record.
C1_Witness ==
  /\ pc = "returned"
  /\ fs[original_dataset_path].exists
  /\ \E i \in 1..Len(daily_headlines) :
       /\ Key(daily_headlines[i]) = <<"a", "b">>
       /\ daily_headlines[i].source = "FoxNews"
  /\ \E i \in 1..Len(daily_headlines) :
       Key(daily_headlines[i]) = <<"c", "d">>
  /\ \E i \in 1..Len(fs[integrated_dataset_path].rows) :
       /\ fs[integrated_dataset_path].rows[i].headline = <<"a", "b", " ">>
       /\ fs[integrated_dataset_path].rows[i].source = "NBC"
       /\ fs[integrated_dataset_path].rows[i].collection_date = "initial"
  /\ \E i \in 1..Len(fs[integrated_dataset_path].rows) :
       /\ fs[integrated_dataset_path].rows[i].headline = <<" ", "c", "d">>
       /\ fs[integrated_dataset_path].rows[i].collection_date = "day0"

\* C2: every integrated dataset a run writes holds no two records with the
\* same canonical key, the first run without any store included.
C2_WrittenDatasetHasNoDuplicateKeys ==
  [][fs'[integrated_dataset_path] # fs[integrated_dataset_path]
     => /\ fs'[integrated_dataset_path].exists
        /\ NoDuplicateKeys(fs'[integrated_dataset_path].rows)]_vars

\* First run, no original store, a batch whose two records share one
\* canonical key: the dataset written holds one record.
C2_Witness ==
  /\ pc = "idle" /\ run = 1 /\ exit_status = 0
  /\ ~fs[original_dataset_path].exists
  /\ Len(daily_headlines) = 2
  /\ Key(daily_headlines[1]) = Key(daily_headlines[2])
  /\ fs[integrated_dataset_path].rows = <<daily_headlines[1]>>

\* C3: integrate_with_existing_dataset with an empty batch leaves the
\* integrated dataset exactly as the prior-integrated input: same records,
\* same order.
C3_EmptyBatchKeepsIntegrated ==
  [][(pc = "call" /\ pc' # "call" /\ daily_headlines = <<>>)
     => fs'[integrated_dataset_path] = fs[integrated_dataset_path]]_vars

\* An empty batch was integrated while the original holds a key ("ef") the
\* integrated dataset lacks: a merge would have changed the store.
C3_Witness ==
  /\ pc = "returned"
  /\ daily_headlines = <<>>
  /\ IsDataset(fs[original_dataset_path])
  /\ fs[original_dataset_path].rows # <<>>
  /\ fs[integrated_dataset_path].exists
  /\ fs[integrated_dataset_path].readable
  /\ fs[integrated_dataset_path].cols = DatasetCols
  /\ fs[integrated_dataset_path].rows # <<>>
  /\ \E i \in 1..Len(fs[original_dataset_path].rows) :
       \A j \in 1..Len(fs[integrated_dataset_path].rows) :
         Key(fs[original_dataset_path].rows[i])
           # Key(fs[integrated_dataset_path].rows[j])

\* The canonical keys a store file holds (none without a headline column).
KeysHeld(file) ==
  IF file.exists /\ "headline" \in file.cols
  THEN {headline_normalized(file.rows[i].headline) :
          i \in 1..Len(file.rows)}
  ELSE {}

\* C4: the integrated dataset is append-only across runs: every canonical
\* key the integrated store holds before a step is held after it, whatever
\* the state of the stores the run reads.
C4_IntegratedAppendOnly ==
  [][KeysHeld(fs[integrated_dataset_path])
       \subseteq KeysHeld(fs'[integrated_dataset_path])]_vars

\* C5: no run changes the original dataset store.
C5_OriginalNeverWritten ==
  [][fs'[original_dataset_path] = fs[original_dataset_path]]_vars

\* A run finished with status 0 after writing the integrated dataset and
\* the report next to an existing original.
C5_Witness ==
  /\ pc = "idle" /\ run >= 1 /\ exit_status = 0
  /\ daily_headlines # <<>>
  /\ fs[original_dataset_path].exists
  /\ fs[original_dataset_path].rows # <<>>
  /\ \E i \in 1..Len(fs[integrated_dataset_path].rows) :
       fs[integrated_dataset_path].rows[i] = daily_headlines[1]
  /\ fs[report_path].exists
  /\ fs[report_path].rows[Len(fs[report_path].rows)].scraping_date
       = strftime(clock)

\* C6: every report row satisfies
\* dataset_size_after = dataset_size_before + headlines_added.
C6_ReportArithmetic ==
  (fs[report_path].exists /\ fs[report_path].readable)
    => \A i \in 1..Len(fs[report_path].rows) :
         fs[report_path].rows[i].dataset_size_after
           = fs[report_path].rows[i].dataset_size_before
               + fs[report_path].rows[i].headlines_added

\* A store the merge loads: present, readable, with headline and source.
Usable(file) ==
  file.exists /\ file.readable /\ {"headline", "source"} \subseteq file.cols

\* The key set of the pre-merge existing dataset (empty when no existing
\* dataset was loaded).
ExistingKeys(files) ==
  (IF Usable(files[original_dataset_path])
   THEN KeysHeld(files[original_dataset_path]) ELSE {})
    \cup (IF Usable(files[integrated_dataset_path])
          THEN KeysHeld(files[integrated_dataset_path]) ELSE {})

LastRow(file) == file.rows[Len(file.rows)]

\* C7: in the report row a run writes, headlines_added is the number of
\* distinct canonical keys of the batch that the pre-merge existing dataset
\* does not hold.
C7_HeadlinesAddedCountsNewKeys ==
  [][fs'[report_path] # fs[report_path]
     => LastRow(fs'[report_path]).headlines_added
          = Cardinality({Key(daily_headlines[i]) :
                           i \in 1..Len(daily_headlines)}
                          \ ExistingKeys(fs))]_vars

\* A run of main() returns status 0.
RunCompletes == pc = "collected" /\ pc' = "idle" /\ exit_status' = 0

\* The run put exactly one new row, its own, at the end of the report log.
OneRowAppended ==
  /\ fs'[report_path].exists
  /\ fs'[report_path].readable
  /\ Len(fs'[report_path].rows) = Len(fs[report_path].rows) + 1
  /\ SubSeq(fs'[report_path].rows, 1, Len(fs[report_path].rows))
       = fs[report_path].rows
  /\ LastRow(fs'[report_path]).scraping_date = strftime(clock')
  /\ LastRow(fs'[report_path]).total_headlines_scraped
       = Len(daily_headlines)

\* C8 as stated: every run that completes without an unexpected exception
\* appends exactly one row to the report log, empty batches included.
C8_EveryRunAppendsOneRow ==
  [][RunCompletes => OneRowAppended]_vars

\* C9: the report log is append-only: when the report file is written,
\* every row it held before is still there, unchanged and in place,
\* followed by the one new row, also when the file could not be read.
C9_ReportAppendOnly ==
  [][fs'[report_path] # fs[report_path]
     => /\ Len(fs'[report_path].rows) = Len(fs[report_path].rows) + 1
        /\ SubSeq(fs'[report_path].rows, 1, Len(fs[report_path].rows))
             = fs[report_path].rows]_vars

\* C10: when both scraped lists are non-empty the batch holds exactly
\* n = min(len(fox), len(nbc)) FoxNews records and exactly n NBC records.
C10_BalancedCounts ==
  (pc = "collected" /\ fox_headlines # <<>> /\ nbc_headlines # <<>>)
    => LET n == CHOOSE m \in {Len(fox_headlines), Len(nbc_headlines)} :
                  m <= Len(fox_headlines) /\ m <= Len(nbc_headlines)
       IN /\ Cardinality({i \in 1..Len(daily_headlines) :
                            daily_headlines[i].source = "FoxNews"}) = n
          /\ Cardinality({i \in 1..Len(daily_headlines) :
                            daily_headlines[i].source = "NBC"}) = n
          /\ Len(daily_headlines) = 2 * n

\* Fox yielded more headlines than NBC and was sampled down to NBC's count.
C10_Witness ==
  /\ pc = "collected"
  /\ Len(fox_headlines) > Len(nbc_headlines)
  /\ Len(nbc_headlines) >= 1
  /\ Cardinality({i \in 1..Len(daily_headlines) :
                    daily_headlines[i].source = "FoxNews"})
       = Len(nbc_headlines)

\* C11: if either scraped list is empty, collect_daily_headlines returns an
\* empty batch, however many headlines the other source yielded.
C11_EmptySourceEmptyBatch ==
  (pc = "collected" /\ (fox_headlines = <<>> \/ nbc_headlines = <<>>))
    => daily_headlines = <<>>

\* One source yielded nothing, the other the most the bound allows, and the
\* batch returned is empty.
C11_Witness ==
  /\ pc = "collected"
  /\ fox_headlines = <<>>
  /\ Len(nbc_headlines) = MaxScrape
  /\ daily_headlines = <<>>

(***************************************************************************)
(* Direct calls of the balanced sampler with any two scraped lists         *)
(***************************************************************************)
MaxList == 3

SamplerFoxTexts == FoxTexts \cup {<<"E", "f">>}
SamplerNbcTexts == NbcTexts \cup {<<"g", "h">>}

\* The state at line 680: both lists are scraped, the batch is not built.
InitSampler ==
  /\ fs \in {[p \in Paths |-> AbsentFile]}
  /\ clock = 1
  /\ pc = "balance"
  /\ run = 1
  /\ fox_headlines \in SeqsUpTo(SamplerFoxTexts, MaxList)
  /\ nbc_headlines \in SeqsUpTo(SamplerNbcTexts, MaxList)
  /\ daily_headlines = <<>>
  /\ exit_status = -1
  /\ NoScrapeCall
  /\ NoValidCall
  /\ NoConcurrentRuns

NextSampler == Balance

SpecSampler == InitSampler /\ [][NextSampler]_vars

\* The headlines of the records of one source, in batch order.
HeadlinesOf(batch, src) ==
  LET recs == SelectSeq(batch, LAMBDA r : r.source = src)
  IN [i \in 1..Len(recs) |-> recs[i].headline]

\* part is made of Len(part) elements of list at pairwise different positions.
DrawnWithoutReplacement(part, list) ==
  \E idx \in [1..Len(part) -> 1..Len(list)] :
    /\ \A i, j \in 1..Len(part) : i # j => idx[i] # idx[j]
    /\ \A i \in 1..Len(part) : part[i] = list[idx[i]]

SourceShare(part, list, n) ==
  /\ Len(part) = n
  /\ IF Len(list) > n THEN DrawnWithoutReplacement(part, list)
                      ELSE part = list

\* C12: in the batch, the source that had more than n headlines contributes n
\* elements of its list taken at pairwise different positions (a sample
\* without replacement), and the source that had n or fewer contributes its
\* whole list in its original order.
C12_SampleWithoutReplacement ==
  pc = "collected" =>
    LET n == IF Len(fox_headlines) <= Len(nbc_headlines)
             THEN Len(fox_headlines) ELSE Len(nbc_headlines)
    IN /\ SourceShare(HeadlinesOf(daily_headlines, "FoxNews"),
                      fox_headlines, n)
       /\ SourceShare(HeadlinesOf(daily_headlines, "NBC"),
                      nbc_headlines, n)

\* Fox yielded three different headlines, NBC two: the batch holds the third
\* and the first Fox headline, in that order, and both NBC headlines.
C12_Witness ==
  /\ pc = "collected"
  /\ Len(fox_headlines) = 3
  /\ Len(nbc_headlines) = 2
  /\ Cardinality({fox_headlines[i] : i \in 1..3}) = 3
  /\ HeadlinesOf(daily_headlines, "FoxNews")
       = <<fox_headlines[3], fox_headlines[1]>>
  /\ HeadlinesOf(daily_headlines, "NBC") = nbc_headlines

(***************************************************************************)
(* One call of a scrape function, followed request by request              *)
(* (scrape_headlines_foxnews, scrape_headlines_nbcnews and the requests    *)
(* fallback of scrape_headlines_nbcnews_latest)                            *)
(***************************************************************************)
MaxRetries == 3

Scrapers == {"foxnews", "nbcnews", "nbcnews_latest"}

Rep(c, n) == [i \in 1..n |-> c]

\* The texts of the headline links of a fetched page, as the document holds
\* them: a headline, the same headline in capitals followed by a blank, a
\* single token of 20 characters, and two words without any common word.
SenatorText == <<"S", "e", "n", "a", "t", "o", "r", " ">> \o Rep("z", 7)
CapitalsText ==
  <<"S", "E", "N", "A", "T", "O", "R", " ">> \o Rep("Z", 7) \o <<" ">>
TokenText == <<"Z">> \o Rep("z", 19)
TwoWordText == Rep("z", 7) \o <<" ">> \o Rep("z", 7)

\* The links of the pages, each the sequence of its text nodes: one node;
\* a node of line break and indentation before the text; two nodes with
\* blanks at the seam, which get_text joins to the one token TokenText; a
\* text with the line breaks and the indentation of the HTML source around
\* it.
SenatorLink == <<SenatorText>>
CapitalsLink == <<<<"\n", " ", " ">>, CapitalsText>>
TokenLink == <<<<"Z">> \o Rep("z", 8) \o <<" ">>, <<" ">> \o Rep("z", 11)>>
TwoWordLink == <<<<"\n", "\t">> \o TwoWordText \o <<"U+00A0", "\r", "\n">>>>

\* The pages a request can be answered with, each the sequence of its
\* headline links in document order.
Pages ==
  {<<>>,
   <<SenatorLink, CapitalsLink>>,
   <<TokenLink, TwoWordLink>>}

\* Lines 148-156 and 605-613: remove duplicates while preserving order.
RECURSIVE unique_from(_, _)
unique_from(list, seen_so_far) ==
  IF list = <<>> THEN <<>>
  ELSE LET normalized == str_strip(str_lower(Head(list)))
       IN IF normalized \in seen_so_far
          THEN unique_from(Tail(list), seen_so_far)
          ELSE <<Head(list)>>
                 \o unique_from(Tail(list), seen_so_far \cup {normalized})

unique_headlines(list) == unique_from(list, {})

\* What the parse of a page appends to `headlines` in the two homepage
\* scrapers: the stripped link texts that pass the scraper's validation.
appended(s, page) ==
  SelectSeq([i \in 1..Len(page) |-> get_text_strip(page[i])],
            LAMBDA t : IF s = "foxnews" THEN fox_basic_validation(t)
                                        ELSE is_valid_headline_nbc(t))

\* extract_headlines_from_html (lines 230-265) with the closure variable
\* `seen` made explicit: the valid texts whose lower() is not in `seen`, and
\* `seen` afterwards.
RECURSIVE extract_headlines_from_html(_, _)
extract_headlines_from_html(page, seen_before) ==
  IF page = <<>> THEN [extracted |-> <<>>, seen |-> seen_before]
  ELSE LET text == get_text_strip(Head(page))
           take == /\ is_valid_headline_latest(text)
                   /\ str_lower(text) \notin seen_before
           rest == extract_headlines_from_html(
                     Tail(page),
                     IF take THEN seen_before \cup {str_lower(text)}
                             ELSE seen_before)
       IN [extracted |-> IF take THEN <<text>> \o rest.extracted
                                 ELSE rest.extracted,
           seen |-> rest.seen]

retry_allowed_after_last(a, m) == a < m

\* `if attempt < max_retries - 1` (lines 70, 171, 179, 417, 441, 449, 545,
\* 628, 636)
retry_allowed(a, m) == a < m - 1

exhausted_exit_raise == "raised"

\* The last attempt failed: the function executes a return statement
\* (lines 75, 177, 185, 423, 447, 455, 550, 634, 642).
exhausted_exit == "returned"

\* The value of that return statement.
exhausted_value(s, list) == IF s = "nbcnews_latest" THEN <<>> ELSE list

\* What the call does that the outside can see: a request with its outcome,
\* a sleep between two attempts, each by the scrape function that made it.
GetEvent(outcome) == [op |-> "GET", outcome |-> outcome, by |-> scraper]
SleepEvent == [op |-> "SLEEP", outcome |-> "none", by |-> scraper]

InitFetch ==
  /\ fs = [p \in Paths |-> AbsentFile]
  /\ clock = 1
  /\ run = 0
  /\ fox_headlines = <<>>
  /\ nbc_headlines = <<>>
  /\ daily_headlines = <<>>
  /\ exit_status = -1
  /\ pc = "attempt"
  /\ scraper \in Scrapers
  /\ max_retries \in 0..MaxRetries
  /\ attempt = 0
  /\ headlines = <<>>
  /\ seen = {}
  /\ events = <<>>
  /\ returned = None
  /\ page_sources = <<>>
  /\ max_load_more_clicks = 0
  /\ click_num = 0
  /\ NoValidCall
  /\ NoConcurrentRuns

\* The except branches and the non-200 branch: sleep and continue, or return.
AfterFailure(list) ==
  IF retry_allowed(attempt, max_retries)
  THEN /\ pc' = "sleep"
       /\ returned' = returned
  ELSE /\ pc' = exhausted_exit
       /\ returned' = IF exhausted_exit = "returned"
                      THEN Some(exhausted_value(scraper, list))
                      ELSE returned

\* requests.get answers with a status other than 200, or raises a
\* RequestException (timeout, DNS, connection reset).
GetFails ==
  /\ pc = "attempt"
  /\ attempt < max_retries
  /\ \E outcome \in {"non_200", "transport_exception"} :
       events' = Append(events, GetEvent(outcome))
  /\ AfterFailure(headlines)
  /\ UNCHANGED <<scraper, max_retries, attempt, headlines, seen,
                 page_sources, max_load_more_clicks, click_num>>
  /\ UNCHANGED <<mainVars, validVars, raceVars>>

\* requests.get answers 200 with the given page, which is parsed to the end.
GetParsedPage(page) ==
  /\ events' = Append(events, GetEvent("parsed"))
  /\ IF scraper = "nbcnews_latest"
     THEN LET r == extract_headlines_from_html(page, seen)
          IN /\ headlines' = headlines \o r.extracted
             /\ seen' = r.seen
             /\ returned' = Some(headlines \o r.extracted)
     ELSE /\ headlines' = headlines \o appended(scraper, page)
          /\ seen' = seen
          /\ returned' =
               Some(unique_headlines(headlines \o appended(scraper, page)))
  /\ pc' = "returned"
  /\ UNCHANGED <<scraper, max_retries, attempt, page_sources,
                 max_load_more_clicks, click_num>>
  /\ UNCHANGED <<mainVars, validVars, raceVars>>

\* An attempt of the loop whose response.text is any of the pages.
GetParsed ==
  /\ pc = "attempt"
  /\ attempt < max_retries
  /\ \E page \in Pages : GetParsedPage(page)

\* requests.get answers 200 and an exception is raised before the return
\* statement, after k links were handled: `except Exception` takes over.
\* In the two homepage scrapers the headlines found so far are in
\* `headlines` already.  In the latest-stories scraper they are in `seen`,
\* and in `headlines` only when the parse came to its end and it is a print
\* of lines 429-436 that raises, after headlines.extend(extracted) of line
\* 426 (a headline that the encoding of stdout cannot hold).
GetParseRaises ==
  /\ pc = "attempt"
  /\ attempt < max_retries
  /\ events' = Append(events, GetEvent("parse_exception"))
  /\ \E page \in Pages : \E k \in 0..Len(page) : \E extended \in BOOLEAN :
       IF scraper = "nbcnews_latest"
       THEN LET r == extract_headlines_from_html(SubSeq(page, 1, k), seen)
            IN /\ extended => k = Len(page)
               /\ seen' = r.seen
               /\ headlines' = IF extended THEN headlines \o r.extracted
                                            ELSE headlines
               /\ AfterFailure(headlines)
       ELSE /\ seen' = seen
            /\ headlines' = headlines \o appended(scraper, SubSeq(page, 1, k))
            /\ AfterFailure(headlines \o appended(scraper, SubSeq(page, 1, k)))
  /\ UNCHANGED <<scraper, max_retries, attempt, page_sources,
                 max_load_more_clicks, click_num>>
  /\ UNCHANGED <<mainVars, validVars, raceVars>>

\* time.sleep(delay); continue
Sleep ==
  /\ pc = "sleep"
  /\ events' = Append(events, SleepEvent)
  /\ attempt' = attempt + 1
  /\ pc' = "attempt"
  /\ UNCHANGED <<scraper, max_retries, headlines, seen, returned,
                 page_sources, max_load_more_clicks, click_num>>
  /\ UNCHANGED <<mainVars, validVars, raceVars>>

\* range(max_retries) is used up: the return after the loop (lines 187, 457, 644).
LoopEnd ==
  /\ pc = "attempt"
  /\ ~(attempt < max_retries)
  /\ returned' = Some(IF scraper = "nbcnews_latest"
                      THEN (IF headlines # <<>> THEN headlines ELSE <<>>)
                      ELSE headlines)
  /\ pc' = "returned"
  /\ UNCHANGED <<scraper, max_retries, attempt, headlines, seen, events,
                 page_sources, max_load_more_clicks, click_num>>
  /\ UNCHANGED <<mainVars, validVars, raceVars>>

NextFetch ==
  \/ GetFails
  \/ GetParsed
  \/ GetParseRaises
  \/ Sleep
  \/ LoopEnd

SpecFetch == InitFetch /\ [][NextFetch]_vars

\* The interpreter runs the function to its end: requests.get has a timeout
\* and time.sleep a fixed duration, so every step that is enabled is taken.
FairSpecFetch == SpecFetch /\ WF_vars(NextFetch)

GetEvents == SelectSeq(events, LAMBDA e : e.op = "GET")

\* Every request of the call failed with a status other than 200 or with a
\* transport exception, and there were max_retries of them.
EveryAttemptFailed ==
  /\ Len(GetEvents) = max_retries
  /\ \A i \in 1..Len(GetEvents) :
       GetEvents[i].outcome \in {"non_200", "transport_exception"}

\* C13: when every one of the max_retries attempts of a scrape function fails
\* with a non-200 status or a transport exception, the function returns an
\* empty list, and it never raises to its caller.
C13_ExhaustedRetriesReturnEmpty ==
  /\ pc # "raised"
  /\ (pc = "returned" /\ EveryAttemptFailed) => returned = Some(<<>>)

\* Three attempts were made, the first two answered by a non-200 status and
\* the third by a transport exception, and the empty list was returned.
C13_Witness ==
  /\ pc = "returned"
  /\ max_retries = 3
  /\ Len(GetEvents) = 3
  /\ GetEvents[1].outcome = "non_200"
  /\ GetEvents[2].outcome = "non_200"
  /\ GetEvents[3].outcome = "transport_exception"
  /\ returned = Some(<<>>)

\* Requests and sleeps alternate, starting with a request; a parsed answer
\* is the last event of the call; the call has not made more than
\* max_retries requests; and when it has returned, its last event, if any,
\* is a request.
RetryDiscipline ==
  /\ Len(GetEvents) <= max_retries
  /\ \A i \in 1..Len(events) :
       events[i].op = (IF i % 2 = 1 THEN "GET" ELSE "SLEEP")
  /\ \A i \in 1..Len(events) :
       events[i].outcome = "parsed" => (i = Len(events) /\ pc = "returned")
  /\ pc = "returned" =>
       (events = <<>> \/ events[Len(events)].op = "GET")

\* C18: for every sequence of responses a scrape function issues at most
\* max_retries GETs and then terminates; it sleeps exactly once between two
\* consecutive attempts and never after the last one; and once an attempt is
\* answered 200 and parsed, no further GET is issued.
C18_BoundedRetriesThenReturn ==
  [](RetryDiscipline) /\ <>(pc = "returned")

\* The call made three requests with one sleep between each two, the third
\* was answered 200 and parsed, and the call returned.
C18_Witness ==
  /\ pc = "returned"
  /\ max_retries = 3
  /\ Len(events) = 5
  /\ events[2].op = "SLEEP"
  /\ events[4].op = "SLEEP"
  /\ events[5] = GetEvent("parsed")
  /\ returned # None

\* The text has a blank with a non-blank character on either side of it.
HasInternalWhitespace(text) ==
  \E i \in 2..(Len(text) - 1) :
    /\ IsSpace(text[i])
    /\ \E j \in 1..(i - 1) : ~IsSpace(text[j])
    /\ \E j \in (i + 1)..Len(text) : ~IsSpace(text[j])

ReturnedList == IF returned = None THEN <<>> ELSE returned[1]

\* C14: every source extractor (Fox homepage, NBC homepage, NBC
\* latest-stories) rejects a candidate text without internal whitespace: no
\* headline a scrape function returns is a single token.
C14_NoSingleTokenReturned ==
  pc = "returned" =>
    \A i \in 1..Len(ReturnedList) : HasInternalWhitespace(ReturnedList[i])

(***************************************************************************)
(* Direct calls of the validity predicates with any candidate text         *)
(***************************************************************************)
\* Words the candidate texts are made of: a neutral word, a word holding
\* common words ("a", "to", "or"), one holding the credit pattern "getty",
\* one holding the exclude keyword "advert", a short common word, and a
\* word with a capital letter outside ASCII and a typeset apostrophe.
CandidateWords ==
  {Rep("z", 7),
   <<"U+00C9", "c", "o", "l", "e", "U+2019", "s">>,
   <<"S", "e", "n", "a", "t", "o", "r">>,
   <<"g", "e", "t", "t", "y", "z", "z">>,
   <<"A", "d", "v", "e", "r", "t", "z">>,
   <<"t", "h", "e">>}

Blanks == {<<>>, <<" ">>, <<"\t">>, <<"U+00A0">>}

\* One word, or two words written together or with a blank between them,
\* with or without a leading and a trailing blank; and a text of 201
\* characters.
CandidateTexts ==
  {lead \o w \o trail : lead \in Blanks, w \in CandidateWords,
                        trail \in Blanks}
  \cup {lead \o w1 \o sep \o w2 \o trail :
          lead \in Blanks, w1 \in CandidateWords, sep \in Blanks,
          w2 \in CandidateWords, trail \in Blanks}
  \cup {Rep("z", 100) \o <<" ">> \o Rep("z", 100)}

InitValid ==
  /\ fs = [p \in Paths |-> AbsentFile]
  /\ clock = 1
  /\ run = 0
  /\ fox_headlines = <<>>
  /\ nbc_headlines = <<>>
  /\ daily_headlines = <<>>
  /\ exit_status = -1
  /\ NoScrapeCall
  /\ NoConcurrentRuns
  /\ pc = "validate"
  /\ headline_text \in CandidateTexts
  /\ valid = None

\* The text is handed to the validation of each of the three extractors.
Validate ==
  /\ pc = "validate"
  /\ valid' = Some([foxnews |-> fox_basic_validation(headline_text),
                    nbcnews |-> is_valid_headline_nbc(headline_text),
                    nbcnews_latest |->
                      is_valid_headline_latest(headline_text)])
  /\ pc' = "validated"
  /\ UNCHANGED <<headline_text, mainVars, scrapeVars, raceVars>>

NextValid == Validate

SpecValid == InitValid /\ [][NextValid]_vars

\* The text matches one of the keywords as the predicates look for them: in
\* text.lower().strip() (lines 222-226, 512-524).
MatchesAny(text, keywords) ==
  \E keyword \in keywords : Contains(str_strip(str_lower(text)), keyword)

\* C15 as stated: the validity predicate accepts every 15-character string
\* that contains a space and matches no exclusion keyword (the image-credit
\* patterns counted among them); in particular is_valid_headline of the NBC
\* homepage extractor returns True for every such string.
C15_FifteenWithSpaceAccepted ==
  (/\ pc = "validated"
   /\ Len(headline_text) = 15
   /\ \E i \in 1..15 : headline_text[i] = " "
   /\ ~MatchesAny(headline_text, exclude_keywords_nbc \cup credit_patterns))
    => valid[1].nbcnews

(***************************************************************************)
(* One run of main() from the balancing step on, with any two scraped      *)
(* lists and stores that hold no record                                    *)
(***************************************************************************)
EmptyStores == {AbsentFile, CsvFile(DatasetCols, <<>>)}

InitEndToEnd ==
  /\ fs \in {[p \in Paths |->
                IF p = original_dataset_path THEN o
                ELSE IF p = integrated_dataset_path THEN g
                ELSE AbsentFile] : o \in EmptyStores, g \in EmptyStores}
  /\ clock = 1
  /\ pc = "balance"
  /\ run = 1
  /\ fox_headlines \in SeqsUpTo(SamplerFoxTexts, MaxList)
  /\ nbc_headlines \in SeqsUpTo(SamplerNbcTexts, MaxList)
  /\ daily_headlines = <<>>
  /\ exit_status = -1
  /\ NoScrapeCall
  /\ NoValidCall
  /\ NoConcurrentRuns

NextEndToEnd ==
  \/ Balance
  \/ Integrate
  \/ NoIntegrate

SpecEndToEnd == InitEndToEnd /\ [][NextEndToEnd]_vars

\* A dataset store that holds no record: no file, or a readable file with
\* the dataset columns and no row.
EmptyOrAbsent(file) ==
  \/ ~file.exists
  \/ file.readable /\ DatasetCols \subseteq file.cols /\ file.rows = <<>>

\* The run integrates its batch into empty or absent stores and completes.
EndToEndRun ==
  /\ RunCompletes
  /\ Len(fox_headlines) > 0
  /\ Len(nbc_headlines) > 0
  /\ EmptyOrAbsent(fs[original_dataset_path])
  /\ EmptyOrAbsent(fs[integrated_dataset_path])

\* The integrated dataset has 2*n rows and the last report row reads
\* headlines_added = 2*n, duplicates_skipped = 0, dataset_size_before = 0,
\* dataset_size_after = 2*n.
EndToEndOutcome(n) ==
  /\ fs'[integrated_dataset_path].exists
  /\ Len(fs'[integrated_dataset_path].rows) = 2 * n
  /\ fs'[report_path].exists
  /\ fs'[report_path].rows # <<>>
  /\ LastRow(fs'[report_path]).headlines_added = 2 * n
  /\ LastRow(fs'[report_path]).duplicates_skipped = 0
  /\ LastRow(fs'[report_path]).dataset_size_before = 0
  /\ LastRow(fs'[report_path]).dataset_size_after = 2 * n

MinOfLists ==
  IF Len(fox_headlines) <= Len(nbc_headlines)
  THEN Len(fox_headlines) ELSE Len(nbc_headlines)

\* C16 as stated: when Fox yields a and NBC yields b headlines (both > 0) and
\* the original and integrated stores are empty or absent, the run writes an
\* integrated dataset of size 2*min(a,b) and a report row with
\* headlines_added = 2*min(a,b), duplicates_skipped = 0,
\* dataset_size_before = 0 and dataset_size_after = 2*min(a,b).
C16_EndToEndCounts ==
  [][EndToEndRun => EndToEndOutcome(MinOfLists)]_vars

\* C16 amended: the same, for a run whose batch holds pairwise different
\* canonical keys.
C16_EndToEndCountsDistinctKeys ==
  [][(EndToEndRun /\ NoDuplicateKeys(daily_headlines))
       => EndToEndOutcome(MinOfLists)]_vars

\* Two of three Fox headlines were sampled next to the two NBC headlines, all
\* four with different keys; the stores held no record; the run wrote a
\* dataset of four rows and the report row 4, 0, 0, 4.
C16_Witness ==
  /\ pc = "idle" /\ exit_status = 0
  /\ Len(daily_headlines) = 4
  /\ NoDuplicateKeys(daily_headlines)
  /\ fs[integrated_dataset_path].exists
  /\ Len(fs[integrated_dataset_path].rows) = 4
  /\ fs[original_dataset_path].exists
  /\ fs[original_dataset_path].rows = <<>>
  /\ fs[report_path].exists
  /\ Len(fs[report_path].rows) = 1
  /\ fs[report_path].rows[1].headlines_added = 4
  /\ fs[report_path].rows[1].duplicates_skipped = 0
  /\ fs[report_path].rows[1].dataset_size_before = 0
  /\ fs[report_path].rows[1].dataset_size_after = 4

\* main() ends: the batch was collected and the status is returned.
RunEnds == pc = "collected" /\ pc' = "idle"

\* The integration of a non-empty batch stopped on an exception: the report
\* log, which a completed integration always extends, was left as it was.
ExceptionReachedTop ==
  /\ daily_headlines # <<>>
  /\ fs'[report_path] = fs[report_path]

\* C17: main returns 0 whenever no unexpected exception occurs, also when
\* one or both sources returned no headline and the batch is empty; it
\* returns a nonzero status only when an exception reached the top level.
C17_ExitStatus ==
  [][RunEnds =>
       /\ exit_status' \in {0, 1}
       /\ exit_status' = 0 <=> ~ExceptionReachedTop
       /\ daily_headlines = <<>> => exit_status' = 0]_vars

\* The first run scraped an empty list from a source, built no batch, wrote
\* no file and returned 0.
C17_Witness ==
  /\ pc = "idle" /\ run = 1
  /\ daily_headlines = <<>>
  /\ exit_status = 0
  /\ ~fs[report_path].exists
  /\ ~fs[integrated_dataset_path].exists

(***************************************************************************)
(* The two scrapes of collect_daily_headlines, followed request by request *)
(* (lines 668-678)                                                         *)
(***************************************************************************)
\* max_retries=3 in the signatures of the scrape functions, which
\* collect_daily_headlines calls without arguments.
default_max_retries == 3

CooldownEvent == [op |-> "COOLDOWN", outcome |-> "none", by |-> "collect"]

\* Line 670: collect_daily_headlines has called scrape_headlines_foxnews().
InitCollect ==
  /\ fs = [p \in Paths |-> AbsentFile]
  /\ clock = 1
  /\ run = 1
  /\ fox_headlines = <<>>
  /\ nbc_headlines = <<>>
  /\ daily_headlines = <<>>
  /\ exit_status = -1
  /\ pc = "attempt"
  /\ scraper = "foxnews"
  /\ max_retries = default_max_retries
  /\ attempt = 0
  /\ headlines = <<>>
  /\ seen = {}
  /\ events = <<>>
  /\ returned = None
  /\ page_sources = <<>>
  /\ max_load_more_clicks = 0
  /\ click_num = 0
  /\ NoValidCall
  /\ NoConcurrentRuns

FoxReturnedSkipsCooldown ==
  /\ pc = "returned"
  /\ scraper = "foxnews"
  /\ fox_headlines' = returned[1]
  /\ IF returned[1] = <<>>
     THEN /\ pc' = "attempt"
          /\ scraper' = "nbcnews"
          /\ attempt' = 0
          /\ returned' = None
     ELSE /\ pc' = "cooldown"
          /\ UNCHANGED <<scraper, attempt, returned>>
  /\ UNCHANGED <<fs, clock, run, nbc_headlines, daily_headlines, exit_status,
                 max_retries, headlines, seen, events,
                 page_sources, max_load_more_clicks, click_num, validVars, raceVars>>

\* scrape_headlines_foxnews() has returned: line 670 binds fox_headlines.
FoxReturned ==
  /\ pc = "returned"
  /\ scraper = "foxnews"
  /\ fox_headlines' = returned[1]
  /\ pc' = "cooldown"
  /\ UNCHANGED <<fs, clock, run, nbc_headlines, daily_headlines, exit_status,
                 scrapeVars, validVars, raceVars>>

\* Lines 674 and 677: time.sleep(2), then scrape_headlines_nbcnews() is
\* called and starts with an empty list (line 474).
CooldownThenCallNbc ==
  /\ pc = "cooldown"
  /\ events' = Append(events, CooldownEvent)
  /\ scraper' = "nbcnews"
  /\ attempt' = 0
  /\ headlines' = <<>>
  /\ returned' = None
  /\ pc' = "attempt"
  /\ UNCHANGED <<max_retries, seen, page_sources, max_load_more_clicks,
                 click_num>>
  /\ UNCHANGED <<mainVars, validVars, raceVars>>

\* scrape_headlines_nbcnews() has returned: line 677 binds nbc_headlines.
NbcReturned ==
  /\ pc = "returned"
  /\ scraper = "nbcnews"
  /\ nbc_headlines' = returned[1]
  /\ pc' = "balance"
  /\ UNCHANGED <<fs, clock, run, fox_headlines, daily_headlines, exit_status,
                 scrapeVars, validVars, raceVars>>

NextCollect ==
  \/ GetFails
  \/ GetParsed
  \/ GetParseRaises
  \/ Sleep
  \/ FoxReturned
  \/ CooldownThenCallNbc
  \/ NbcReturned

SpecCollect == InitCollect /\ [][NextCollect]_vars

CooldownCount ==
  Len(SelectSeq(events, LAMBDA e : e.op = "COOLDOWN"))

\* C19: within one run every request and sleep of the Fox fetch, retries
\* included, comes before the cooldown, which comes before every request of
\* the NBC fetch; and the cooldown has happened exactly once by the time NBC
\* is fetched, whether or not the Fox fetch returned any headline.
C19_FoxThenCooldownThenNbc ==
  /\ \A i, j \in 1..Len(events) :
       (events[i].by = "foxnews" /\ events[j].by = "nbcnews") =>
         \E k \in (i + 1)..(j - 1) : events[k].op = "COOLDOWN"
  /\ scraper = "nbcnews" => CooldownCount = 1
  /\ (scraper = "foxnews" /\ pc # "cooldown") => CooldownCount = 0
  /\ pc = "cooldown" => CooldownCount = 0
  /\ CooldownCount <= 1

\* The Fox fetch failed three times and returned the empty list; the cooldown
\* followed; then NBC was fetched and answered at its second attempt.
C19_Witness ==
  /\ pc = "balance"
  /\ fox_headlines = <<>>
  /\ Len(events) = 9
  /\ \A i \in {1, 3, 5} : events[i].op = "GET" /\ events[i].by = "foxnews"
  /\ events[6].op = "COOLDOWN"
  /\ events[7].op = "GET" /\ events[7].by = "nbcnews"
  /\ events[9] = [op |-> "GET", outcome |-> "parsed", by |-> "nbcnews"]
  /\ nbc_headlines # <<>>

(***************************************************************************)
(* Paginated extraction: scrape_headlines_nbcnews_latest with the browser  *)
(* (lines 268-398), and the requests loop it falls back to when the        *)
(* browser path raises (lines 400-457)                                     *)
(***************************************************************************)
MaxClicks == 2

TheText == <<"t", "h", "e", " ">> \o Rep("z", 11)

\* What one load of the latest-stories page can add to the document: the
\* links of the stories loaded, in document order.
Loads ==
  {<<>>,
   <<SenatorLink>>,
   <<TwoWordLink>>,
   <<<<TheText>>, TokenLink>>,
   <<TwoWordLink, <<TheText>>>>}

\* The call has entered the browser path; nothing is parsed yet.  max_retries
\* is the default or 0, with which the requests loop makes no attempt.
InitPaginate ==
  /\ fs = [p \in Paths |-> AbsentFile]
  /\ clock = 1
  /\ run = 0
  /\ fox_headlines = <<>>
  /\ nbc_headlines = <<>>
  /\ daily_headlines = <<>>
  /\ exit_status = -1
  /\ pc = "initial"
  /\ scraper = "nbcnews_latest"
  /\ max_retries \in {0, default_max_retries}
  /\ attempt = 0
  /\ headlines = <<>>
  /\ seen = {}
  /\ events = <<>>
  /\ returned = None
  /\ page_sources = <<>>
  /\ max_load_more_clicks \in 0..MaxClicks
  /\ click_num = 0
  /\ NoValidCall
  /\ NoConcurrentRuns

\* Lines 270-306 and 400-405: selenium cannot be imported or the browser
\* cannot be started, and no request is made; or the browser requests the
\* page (driver.get, line 306) and raises.  use_selenium is set to False and
\* the function goes on with the requests loop (line 408).
SeleniumUnavailable ==
  /\ pc = "initial"
  /\ \E requested \in BOOLEAN :
       events' = IF requested
                 THEN Append(events, GetEvent("browser_exception"))
                 ELSE events
  /\ pc' = "attempt"
  /\ UNCHANGED <<scraper, max_retries, attempt, headlines, seen, returned,
                 page_sources, max_load_more_clicks, click_num>>
  /\ UNCHANGED <<mainVars, validVars, raceVars>>

\* Lines 305-313: the browser requests the page (driver.get, line 306) and
\* the page is parsed for the first time.
InitialParse ==
  /\ pc = "initial"
  /\ \E page \in Loads :
       LET r == extract_headlines_from_html(page, seen)
       IN /\ page_sources' = <<page>>
          /\ headlines' = headlines \o r.extracted
          /\ seen' = r.seen
  /\ events' = Append(events, GetEvent("browser"))
  /\ pc' = "click"
  /\ UNCHANGED <<scraper, max_retries, attempt, returned,
                 max_load_more_clicks, click_num>>
  /\ UNCHANGED <<mainVars, validVars, raceVars>>

\* Lines 312 and 403-405: the first parse raises after k links were handled.
\* extract_headlines_from_html has put the keys of the headlines it took
\* into `seen` (line 250); its list is lost, so `headlines` stays empty.  The
\* exception leaves the try block through `finally` and is caught by the
\* outer `except Exception`: the function goes on with the requests loop.
InitialParseRaises ==
  /\ pc = "initial"
  /\ \E page \in Loads : \E k \in 0..Len(page) :
       seen' = extract_headlines_from_html(SubSeq(page, 1, k), seen).seen
  /\ events' = Append(events, GetEvent("browser"))
  /\ pc' = "attempt"
  /\ UNCHANGED <<scraper, max_retries, attempt, headlines, returned,
                 page_sources, max_load_more_clicks, click_num>>
  /\ UNCHANGED <<mainVars, validVars, raceVars>>

\* Lines 316-372: the button is found and clicked, the page grows by what
\* the site loads, and the whole page is parsed again.
LoadMore ==
  /\ pc = "click"
  /\ click_num < max_load_more_clicks
  /\ \E more \in Loads :
       LET page == page_sources[Len(page_sources)] \o more
           r == extract_headlines_from_html(page, seen)
           new_headlines == r.extracted
           new_count == Len(new_headlines) - Len(headlines)
       IN /\ page_sources' = Append(page_sources, page)
          /\ seen' = r.seen
          /\ IF new_count > 0
             THEN /\ headlines' =
                       headlines \o SubSeq(new_headlines, Len(headlines) + 1,
                                           Len(new_headlines))
                  /\ click_num' = click_num + 1
                  /\ pc' = "click"
             ELSE /\ headlines' = headlines
                  /\ click_num' = click_num
                  /\ pc' = "done"
  /\ UNCHANGED <<scraper, max_retries, attempt, events, returned,
                 max_load_more_clicks>>
  /\ UNCHANGED <<mainVars, validVars, raceVars>>

\* Lines 345-349 and 373-382: no button, a button that cannot be clicked, or
\* an exception while clicking (k = 0); or the button is clicked and the
\* parse of the grown page (line 365) raises after k links were handled,
\* which `except Exception` (lines 380-382) catches as well: the keys of the
\* headlines taken so far are in `seen`, `headlines` is as it was.  break.
LoadMoreStops ==
  /\ pc = "click"
  /\ click_num < max_load_more_clicks
  /\ \E more \in Loads :
       LET page == page_sources[Len(page_sources)] \o more
       IN \E k \in 0..Len(page) :
            seen' = extract_headlines_from_html(SubSeq(page, 1, k), seen).seen
  /\ pc' = "done"
  /\ UNCHANGED <<scraper, max_retries, attempt, headlines, events, returned,
                 page_sources, max_load_more_clicks, click_num>>
  /\ UNCHANGED <<mainVars, validVars, raceVars>>

\* range(max_load_more_clicks) is used up.
ClicksUsedUp ==
  /\ pc = "click"
  /\ ~(click_num < max_load_more_clicks)
  /\ pc' = "done"
  /\ UNCHANGED <<mainVars, scrapeVars, validVars, raceVars>>

\* Lines 384-398: the browser is closed and list(headlines) is returned.
ReturnHeadlines ==
  /\ pc = "done"
  /\ returned' = Some(headlines)
  /\ pc' = "returned"
  /\ UNCHANGED <<scraper, max_retries, attempt, headlines, seen, events,
                 page_sources, max_load_more_clicks, click_num>>
  /\ UNCHANGED <<mainVars, validVars, raceVars>>

\* Lines 384-386 and 403-405: driver.quit() raises in the `finally` clause.
\* The outer `except Exception` catches it and the function goes on with the
\* requests loop, with `headlines` and `seen` as the browser path left them.
QuitRaises ==
  /\ pc = "done"
  /\ pc' = "attempt"
  /\ UNCHANGED <<mainVars, scrapeVars, validVars, raceVars>>

\* The browser path, and the requests loop of lines 408-457 (the steps of
\* NextFetch) once the browser path has raised.
NextPaginate ==
  \/ SeleniumUnavailable
  \/ InitialParse
  \/ InitialParseRaises
  \/ LoadMore
  \/ LoadMoreStops
  \/ ClicksUsedUp
  \/ ReturnHeadlines
  \/ QuitRaises
  \/ GetFails
  \/ GetParsed
  \/ GetParseRaises
  \/ Sleep
  \/ LoopEnd

SpecPaginate == InitPaginate /\ [][NextPaginate]_vars

\* C20: in paginated extraction every valid headline of a re-parsed page
\* whose canonical key was not seen before is appended to the result, so the
\* list returned holds every valid headline that appeared on any parsed page.
C20_EveryParsedHeadlineReturned ==
  pc = "returned" =>
    \A p \in 1..Len(page_sources) : \A i \in 1..Len(page_sources[p]) :
      is_valid_headline_latest(get_text_strip(page_sources[p][i])) =>
        \E j \in 1..Len(ReturnedList) :
          str_lower(ReturnedList[j])
            = str_lower(get_text_strip(page_sources[p][i]))

\* A step of the click loop that parses an expansion and leaves the loop.
StopsAfterExpansion ==
  /\ pc = "click"
  /\ pc' = "done"
  /\ Len(page_sources') = Len(page_sources) + 1

\* The expansion parsed in this step showed no valid headline whose key was
\* new.
ExpansionYieldedNothingNew == seen' = seen

\* C21: paginated extraction performs at most max_load_more_clicks
\* expansions, and an expansion is the reason for stopping only when it
\* yielded no new headline (by canonical key): an expansion that yields at
\* least one new headline never stops the loop.
C21_StopsOnlyWithoutNewHeadline ==
  /\ [](Len(page_sources) <= 1 + max_load_more_clicks)
  /\ [][StopsAfterExpansion => ExpansionYieldedNothingNew]_vars

\* The part of the statement that bounds the number of expansions.
ExpansionsBounded ==
  /\ click_num <= max_load_more_clicks
  /\ Len(page_sources) <= 1 + max_load_more_clicks

\* No two headlines of the list have the same canonical key.
DistinctKeys(list) ==
  \A i, j \in 1..Len(list) :
    i # j => headline_normalized(list[i]) # headline_normalized(list[j])

\* C22: on every return path of a scrape function (success, non-200 on the
\* last attempt, exception on the last attempt, also after a parse that
\* raised part-way) the returned list holds no two headlines with the same
\* canonical key.
C22_ReturnedKeysDistinct ==
  pc = "returned" => DistinctKeys(ReturnedList)

\* The same statement for the return after a parse that ran to its end.
ParsedReturnKeysDistinct ==
  (pc = "returned" /\ events # <<>>
     /\ events[Len(events)].outcome = "parsed")
    => DistinctKeys(ReturnedList)


\* The candidates of a page that the scraper's validity test accepts, in
\* encounter order and as read from the page.
AcceptedCandidates(s, page) ==
  SelectSeq([i \in 1..Len(page) |-> get_text_strip(page[i])],
            LAMBDA t : IF s = "foxnews" THEN fox_basic_validation(t)
                       ELSE IF s = "nbcnews" THEN is_valid_headline_nbc(t)
                       ELSE is_valid_headline_latest(t))

\* A list with only the first headline of each canonical key kept.
FirstOfEachKey(list) ==
  Restrict(list,
           {i \in 1..Len(list) :
              \A j \in 1..(i - 1) :
                headline_normalized(list[j]) # headline_normalized(list[i])})

\* The step in which an attempt of the retry loop parses the page to the end.
ParsesToTheEnd(page) ==
  pc = "attempt" /\ attempt < max_retries /\ GetParsedPage(page)

\* C23: when a page is parsed to the end, the scraper returns the accepted
\* candidates of that page with only the first occurrence of each canonical
\* key, in encounter order and in the original spelling.
C23_ParsedResultIsFirstOccurrences ==
  [][\A page \in Pages :
       ParsesToTheEnd(page)
         => returned' = Some(FirstOfEachKey(AcceptedCandidates(scraper,
                                                                page)))]_vars

\* The same statement for a parse that no attempt failed part-way before.
FirstCleanParseIsFirstOccurrences ==
  [][\A page \in Pages :
       (ParsesToTheEnd(page) /\ headlines = <<>> /\ seen = {})
         => returned' = Some(FirstOfEachKey(AcceptedCandidates(scraper,
                                                                page)))]_vars


\* A store that was loaded and lacks the headline or the source column.
LacksRequiredColumn(file) ==
  file.exists /\ file.readable /\ ~({"headline", "source"} \subseteq file.cols)

\* A store that was loaded and lacks nothing but collection_date.
LacksOnlyCollectionDate(file) ==
  /\ Usable(file)
  /\ "collection_date" \notin file.cols

\* The records of a store that enter the merge union.
EntersUnion(file, sentinel) ==
  IF Usable(file) THEN Records(file, sentinel) ELSE <<>>

MergeInputs(files, batch) ==
  EntersUnion(files[original_dataset_path], "initial")
    \o EntersUnion(files[integrated_dataset_path], "unknown")
    \o batch

DegradedInput(files) ==
  \E p \in {original_dataset_path, integrated_dataset_path} :
    LacksRequiredColumn(files[p]) \/ LacksOnlyCollectionDate(files[p])

\* C24: a loaded store without the headline or the source column
\* contributes no record to the merge and raises no error: the call goes on
\* with the other store and the batch; a loaded store that lacks only
\* collection_date contributes all its records, dated 'initial' (original)
\* or 'unknown' (integrated).
C24_DegradedInputSkippedOrDefaulted ==
  /\ []((pc = "call" /\ daily_headlines # <<>> /\ DegradedInput(fs))
          => \A now \in datetime_now(clock) :
               ~integrate_with_existing_dataset(
                  fs, daily_headlines, original_dataset_path,
                  integrated_dataset_path, report_path,
                  strftime(now), "none").raised)
  /\ [][(/\ pc = "call" /\ pc' = "returned"
         /\ daily_headlines # <<>>
         /\ DegradedInput(fs))
        => fs'[integrated_dataset_path] =
             CsvFile(DatasetCols,
                     Restrict(MergeInputs(fs, daily_headlines),
                              FirstOccurrences(
                                MergeInputs(fs, daily_headlines))))]_vars

\* The original store lacks the source column and holds the key "ab"; the
\* call returned and the dataset it wrote holds the batch's record of that
\* key and nothing of the original.
C24_Witness ==
  /\ pc = "returned"
  /\ fs[original_dataset_path].cols = NoSourceCols
  /\ fs[original_dataset_path].rows[1].headline = <<"a", "b", " ">>
  /\ daily_headlines =
       <<[headline |-> <<"A", "b">>, source |-> "FoxNews",
          collection_date |-> strftime(1)]>>
  /\ fs[integrated_dataset_path].rows = daily_headlines

(***************************************************************************)
(* Two processes run main() on the same stores (SpecRace).  The code takes *)
(* no lock (no flock, no rename-on-write), so the file operations of the   *)
(* two calls of integrate_with_existing_dataset interleave freely.  Each   *)
(* pd.read_csv is one step, and so is the reading of the clock; each       *)
(* to_csv is two, the opening of the file, which empties it, and the       *)
(* writing of the frame when the file is closed (the frames are smaller    *)
(* than the write buffer).  No write fails.                                *)
(***************************************************************************)
Procs == {1, 2}

\* The stores the two processes start on.
RaceFiles ==
  {[p \in Paths |->
      IF p = original_dataset_path THEN o
      ELSE IF p = integrated_dataset_path THEN g ELSE r] :
     o \in {AbsentFile, CsvFile(DatasetCols, <<OrigRec1, OrigRec2, OrigRec1>>)},
     g \in {AbsentFile, CsvFile(DatasetCols, <<IntegRec1, IntegRec2>>)},
     r \in {AbsentFile, CsvFile(ReportCols, <<OldReportRow>>)}}

\* The batches collect_daily_headlines hands to the merge when each source
\* returned one headline.
RaceBatches(today) ==
  UNION {balanced_batches(<<f>>, <<n>>, today) :
           f \in SamplerFoxTexts, n \in SamplerNbcTexts}

InitRace ==
  /\ fs \in RaceFiles
  /\ clock = 1
  /\ pc = "race"
  /\ run = 0
  /\ fox_headlines = <<>>
  /\ nbc_headlines = <<>>
  /\ daily_headlines = <<>>
  /\ exit_status = -1
  /\ NoScrapeCall
  /\ NoValidCall
  /\ process \in [Procs -> [at : {"load"},
                             daily_headlines : RaceBatches(strftime(clock)),
                             all_datasets : {<<>>},
                             collection_date : {None},
                             updated_report : {<<>>}]]

\* Lines 915-920: existing_combined_df of a process.
existing_combined_df(p) ==
  IF process[p].all_datasets # <<>>
  THEN Some(drop_duplicates(concat(process[p].all_datasets)))
  ELSE None

\* Lines 931-946: combined_df_after of a process.
combined_df_after(p) ==
  drop_duplicates(concat(Append(process[p].all_datasets,
                                process[p].daily_headlines)))

\* Lines 866-910: the process reads the original and the integrated store.
LoadDatasets(p) ==
  /\ process[p].at = "load"
  /\ process' =
       [process EXCEPT
          ![p].all_datasets =
            load_original(fs, original_dataset_path)
              \o load_integrated(fs, integrated_dataset_path),
          ![p].at = "save"]
  /\ UNCHANGED <<pc, mainVars, scrapeVars, validVars>>

\* Line 951, first half: to_csv opens the integrated store for writing.  The
\* file is empty from this step until the process writes its frame.
OpenIntegrated(p) ==
  /\ process[p].at = "save"
  /\ fs' = [fs EXCEPT ![save_path(original_dataset_path,
                                    integrated_dataset_path)] = TruncatedFile]
  /\ process' = [process EXCEPT ![p].at = "write"]
  /\ UNCHANGED <<pc, clock, run, fox_headlines, nbc_headlines, daily_headlines,
                 exit_status, scrapeVars, validVars>>

SaveIntegratedUnderLock(p) ==
  /\ process[p].at = "write"
  /\ fs' = to_csv(fs,
                  save_path(original_dataset_path, integrated_dataset_path),
                  DatasetCols,
                  drop_duplicates(concat(
                    load_original(fs, original_dataset_path)
                      \o load_integrated(fs, integrated_dataset_path)
                      \o <<process[p].daily_headlines>>)))
  /\ process' = [process EXCEPT ![p].at = "report"]
  /\ UNCHANGED <<pc, clock, run, fox_headlines, nbc_headlines, daily_headlines,
                 exit_status, scrapeVars, validVars>>

\* Line 951, second half: the process writes what it merged from the frames
\* it loaded into the file it opened.
SaveIntegrated(p) ==
  /\ process[p].at = "write"
  /\ fs' = write_csv(fs,
                     save_path(original_dataset_path, integrated_dataset_path),
                     DatasetCols, combined_df_after(p))
  /\ process' = [process EXCEPT ![p].at = "report"]
  /\ UNCHANGED <<pc, clock, run, fox_headlines, nbc_headlines, daily_headlines,
                 exit_status, scrapeVars, validVars>>

\* Line 768: the process reads the clock for the date of its report row.
ReadClock(p) ==
  /\ process[p].at = "report"
  /\ clock' \in datetime_now(clock)
  /\ process' =
       [process EXCEPT
          ![p].collection_date = Some(strftime(clock')),
          ![p].at = "load_report"]
  /\ UNCHANGED <<fs, pc, run, fox_headlines, nbc_headlines, daily_headlines,
                 exit_status, scrapeVars, validVars>>

\* Lines 769-817: the process computes its report row, dated as it read the
\* clock, and reads the report.
LoadReport(p) ==
  /\ process[p].at = "load_report"
  /\ process' =
       [process EXCEPT
          ![p].updated_report =
            updated_report(fs, report_path,
                           report_entry(process[p].daily_headlines,
                                        existing_combined_df(p),
                                        Some(combined_df_after(p)),
                                        process[p].collection_date[1])),
          ![p].at = "save_report"]
  /\ UNCHANGED <<fs, pc, clock, run, fox_headlines, nbc_headlines,
                 daily_headlines, exit_status, scrapeVars, validVars>>

\* Line 820, first half: to_csv opens the report for writing.
OpenReport(p) ==
  /\ process[p].at = "save_report"
  /\ fs' = [fs EXCEPT ![report_path] = TruncatedFile]
  /\ process' = [process EXCEPT ![p].at = "write_report"]
  /\ UNCHANGED <<pc, clock, run, fox_headlines, nbc_headlines, daily_headlines,
                 exit_status, scrapeVars, validVars>>

\* Line 820, second half: the process writes the rows of its report.
SaveReport(p) ==
  /\ process[p].at = "write_report"
  /\ fs' = write_csv(fs, report_path, ReportCols, process[p].updated_report)
  /\ process' = [process EXCEPT ![p].at = "done"]
  /\ UNCHANGED <<pc, clock, run, fox_headlines, nbc_headlines, daily_headlines,
                 exit_status, scrapeVars, validVars>>

NextRace ==
  \E p \in Procs :
    \/ LoadDatasets(p)
    \/ OpenIntegrated(p)
    \/ SaveIntegrated(p)
    \/ ReadClock(p)
    \/ LoadReport(p)
    \/ OpenReport(p)
    \/ SaveReport(p)

SpecRace == InitRace /\ [][NextRace]_vars


\* What a process read and its batch, in merge order.
OwnInputs(p) ==
  concat(process[p].all_datasets) \o process[p].daily_headlines

OpensIntegrated(p) == process[p].at = "save" /\ process'[p].at = "write"

SavesIntegrated(p) == process[p].at = "write" /\ process'[p].at = "report"

OpensReport(p) ==
  process[p].at = "save_report" /\ process'[p].at = "write_report"

SavesReport(p) ==
  process[p].at = "write_report" /\ process'[p].at = "done"

AllDone == \A p \in Procs : process[p].at = "done"

\* A canonical key of the process's batch that the integrated store lacks.
LostKeys(p) ==
  {Key(process[p].daily_headlines[i]) :
     i \in 1..Len(process[p].daily_headlines)}
    \ KeysHeld(fs[integrated_dataset_path])

\* The row the process computed for its run and put last in its report.
OwnRow(p) == process[p].updated_report[Len(process[p].updated_report)]

\* The report log holds no row equal to the one the process wrote.
ReportRowLost(p) ==
  \A i \in 1..Len(fs[report_path].rows) : fs[report_path].rows[i] # OwnRow(p)

\* What the process merged from its own read and its batch.
OwnMerge(p) == Restrict(OwnInputs(p), FirstOccurrences(OwnInputs(p)))

StartsWith(rows, front) ==
  /\ Len(front) <= Len(rows)
  /\ SubSeq(rows, 1, Len(front)) = front

\* C25: two runs on the same stores race on the integrated store and on the
\* report: each run empties the integrated store and writes into it the
\* merge of what it read earlier and its batch, whatever the store held by
\* then (all of the file when no other run wrote into it since it was
\* emptied), and does the same to the report with the rows it read earlier
\* and its own row; so there is an interleaving (C25_Witness) after which
\* both runs are finished and a headline that one of them wrote is missing
\* from the integrated store, and its report row from the report.
C25_WholesaleOverwriteFromOwnRead ==
  [][\A p \in Procs :
       /\ OpensIntegrated(p)
            => fs'[integrated_dataset_path] = TruncatedFile
       /\ SavesIntegrated(p)
            => /\ Usable(fs'[integrated_dataset_path])
               /\ StartsWith(fs'[integrated_dataset_path].rows, OwnMerge(p))
               /\ fs[integrated_dataset_path] = TruncatedFile
                    => fs'[integrated_dataset_path] =
                         CsvFile(DatasetCols, OwnMerge(p))
       /\ OpensReport(p)
            => /\ fs'[report_path] = TruncatedFile
               /\ fs'[integrated_dataset_path] = fs[integrated_dataset_path]
       /\ SavesReport(p)
            => /\ StartsWith(fs'[report_path].rows, process[p].updated_report)
               /\ fs[report_path] = TruncatedFile
                    => fs'[report_path] =
                         CsvFile(ReportCols, process[p].updated_report)
               /\ fs'[report_path].rows[Len(process[p].updated_report)]
                    = OwnRow(p)
               /\ fs'[integrated_dataset_path]
                    = fs[integrated_dataset_path]]_vars

\* Both runs are finished; run 1 saved a dataset with the key "ef" and a
\* report with its row, and neither the key nor the row is left; run 2's
\* row is there.
C25_Witness ==
  /\ AllDone
  /\ <<"e", "f">> \in LostKeys(1)
  /\ ReportRowLost(1)
  /\ ~ReportRowLost(2)
  /\ fs[integrated_dataset_path].exists

\* The opposite of the race: once both runs are finished no key and no row
\* of either is missing (violated under SpecRace).
NoLostUpdate ==
  AllDone => \A p \in Procs : LostKeys(p) = {} /\ ~ReportRowLost(p)


\* The integrated store as a run of this system leaves it when the original
\* store is the present one: a dataset file with the three columns, no two
\* records of one canonical key, starting with the original's records (first
\* of each key, a missing collection_date read as 'initial').
WrittenByEarlierRun(files) ==
  /\ Usable(files[integrated_dataset_path])
  /\ files[integrated_dataset_path].cols = DatasetCols
  /\ NoDuplicateKeys(files[integrated_dataset_path].rows)
  /\ LET first == Restrict(
                    EntersUnion(files[original_dataset_path], "initial"),
                    FirstOccurrences(
                      EntersUnion(files[original_dataset_path], "initial")))
     IN /\ Len(first) <= Len(files[integrated_dataset_path].rows)
        /\ SubSeq(files[integrated_dataset_path].rows, 1, Len(first)) = first

BatchKeysAllHeld(files, batch) ==
  {Key(batch[i]) : i \in 1..Len(batch)}
    \subseteq KeysHeld(files[integrated_dataset_path])

\* C26: with a well-formed original store and an integrated store written
\* by an earlier run from that original, a run whose non-empty batch holds
\* only canonical keys of the integrated store leaves the integrated store
\* with the same records in the same order, and the report row it writes
\* has headlines_added = 0 and dataset_size_after = dataset_size_before.
C26_RepeatedBatchChangesNothing ==
  [][(/\ pc = "collected"
      /\ daily_headlines # <<>>
      /\ IsDataset(fs[original_dataset_path])
      /\ WrittenByEarlierRun(fs)
      /\ BatchKeysAllHeld(fs, daily_headlines))
     => /\ fs'[integrated_dataset_path] = fs[integrated_dataset_path]
        /\ fs'[report_path] # fs[report_path]
             => /\ LastRow(fs'[report_path]).headlines_added = 0
                /\ LastRow(fs'[report_path]).dataset_size_after
                     = LastRow(fs'[report_path]).dataset_size_before
                /\ LastRow(fs'[report_path]).dataset_size_after
                     = Len(fs[integrated_dataset_path].rows)]_vars

\* The second run of main() completed, on the day of the first run, on the
\* store the first run wrote:
\* the first run's row reports added headlines, the second run's row none,
\* with the size of the dataset before and after equal to the store's.
C26_Witness ==
  /\ pc = "idle"
  /\ run = 2
  /\ exit_status = 0
  /\ daily_headlines # <<>>
  /\ fs[report_path].readable
  /\ Len(fs[report_path].rows) >= 2
  /\ LET rows == fs[report_path].rows
         n == Len(fs[report_path].rows)
     IN /\ rows[n - 1].scraping_date = strftime(clock)
        /\ rows[n - 1].headlines_added > 0
        /\ rows[n].scraping_date = strftime(clock)
        /\ rows[n].headlines_added = 0
        /\ rows[n].dataset_size_before = rows[n - 1].dataset_size_after
        /\ rows[n].dataset_size_after
             = Len(fs[integrated_dataset_path].rows)
        /\ rows[n].dataset_size_after = rows[n].dataset_size_before


\* The positions of the batch that hold a record of the source.
PositionsOf(batch, src) == {i \in 1..Len(batch) : batch[i].source = src}

\* The canonical keys that both sources contributed to the batch.
SharedKeys(batch) ==
  {Key(batch[i]) : i \in PositionsOf(batch, "FoxNews")}
    \cap {Key(batch[j]) : j \in PositionsOf(batch, "NBC")}

\* The batch is the sampled Fox News headlines followed by the sampled NBC
\* headlines, as many of each as the shorter list holds, none dropped.
FoxBlockThenNbcBlock ==
  LET n == IF Len(fox_headlines) <= Len(nbc_headlines)
           THEN Len(fox_headlines) ELSE Len(nbc_headlines)
  IN /\ Len(daily_headlines) = 2 * n
     /\ PositionsOf(daily_headlines, "FoxNews") = 1..n
     /\ PositionsOf(daily_headlines, "NBC") = (n + 1)..(2 * n)
     /\ \A i \in 1..n :
          /\ \E a \in 1..Len(fox_headlines) :
               daily_headlines[i].headline = fox_headlines[a]
          /\ \E b \in 1..Len(nbc_headlines) :
               daily_headlines[n + i].headline = nbc_headlines[b]

\* C27: the batch is not deduplicated across sources: it holds the Fox News
\* records followed by the NBC records, also when both sources contribute
\* the same canonical key; for such a key that the existing stores do not
\* hold, the dataset a completed run writes keeps exactly one record, the
\* FoxNews one.
C27_FoxRecordWinsInBatch ==
  /\ [](pc = "collected" => FoxBlockThenNbcBlock)
  /\ [][(RunCompletes /\ daily_headlines # <<>>)
        => \A k \in SharedKeys(daily_headlines) \ ExistingKeys(fs) :
             \E n \in 1..Len(fs'[integrated_dataset_path].rows) :
               /\ Key(fs'[integrated_dataset_path].rows[n]) = k
               /\ fs'[integrated_dataset_path].rows[n].source = "FoxNews"
               /\ \E i \in PositionsOf(daily_headlines, "FoxNews") :
                    fs'[integrated_dataset_path].rows[n] = daily_headlines[i]
               /\ \A m \in 1..Len(fs'[integrated_dataset_path].rows) :
                    Key(fs'[integrated_dataset_path].rows[m]) = k => m = n]_vars

\* Fox returned "Ab" and NBC "ab"; the run completed and the dataset holds
\* this run's FoxNews record "Ab" and no NBC record of that key.
C27_Witness ==
  /\ pc = "idle"
  /\ exit_status = 0
  /\ run = 1
  /\ daily_headlines =
       <<[headline |-> <<"A", "b">>, source |-> "FoxNews",
          collection_date |-> strftime(1)],
         [headline |-> <<"a", "b">>, source |-> "NBC",
          collection_date |-> strftime(1)]>>
  /\ \E n \in 1..Len(fs[integrated_dataset_path].rows) :
       fs[integrated_dataset_path].rows[n] = daily_headlines[1]
  /\ \A n \in 1..Len(fs[integrated_dataset_path].rows) :
       fs[integrated_dataset_path].rows[n] # daily_headlines[2]


\* The dataset file a run writes for the stores and the batch it finds.
MergedFile(files, batch) ==
  CsvFile(DatasetCols,
          Restrict(MergeInputs(files, batch),
                   FirstOccurrences(MergeInputs(files, batch))))

\* What the run does to the files and returns when writing the report
\* raises, the clock showing the day `now`.
ReportAppendRaises(now) ==
  integrate_with_existing_dataset(
    fs, daily_headlines, original_dataset_path, integrated_dataset_path,
    report_path, strftime(now), "report")

IntegrateStep == pc = "collected" /\ pc' = "idle" /\ daily_headlines # <<>>

\* C28: a run overwrites the integrated store before it appends its report
\* row: the report changes only in a step that leaves the merged dataset in
\* the integrated store; when appending the report row raises, the
\* integrated store holds the new merged content, the report is as before
\* the run, and main returns a nonzero status.
C28_NoRollbackWhenReportFails ==
  /\ []((pc = "collected" /\ daily_headlines # <<>>)
          => \A now \in datetime_now(clock) :
               /\ ReportAppendRaises(now).raised
               /\ main_status(ReportAppendRaises(now).raised) # 0
               /\ ReportAppendRaises(now).fs[integrated_dataset_path]
                    = MergedFile(fs, daily_headlines)
               /\ ReportAppendRaises(now).fs[report_path] = fs[report_path])
  /\ [][IntegrateStep
        => /\ fs'[report_path] # fs[report_path]
                => /\ fs'[integrated_dataset_path]
                        = MergedFile(fs, daily_headlines)
                   /\ exit_status' = 0
           /\ exit_status' # 0
                => /\ fs'[report_path] = fs[report_path]
                   /\ \/ fs'[integrated_dataset_path]
                           = fs[integrated_dataset_path]
                      \/ fs'[integrated_dataset_path]
                           = MergedFile(fs, daily_headlines)
           /\ fs'[original_dataset_path] = fs[original_dataset_path]]_vars

\* The first run ended with status 1; the integrated store, absent or
\* without this key before, holds the batch's record "cd" of this run, and
\* the report holds no row of this run.
C28_Witness ==
  /\ pc = "idle"
  /\ run = 1
  /\ exit_status = 1
  /\ Len(daily_headlines) = 2
  /\ daily_headlines[1].headline = <<"c", "d">>
  /\ \E n \in 1..Len(fs[integrated_dataset_path].rows) :
       fs[integrated_dataset_path].rows[n] = daily_headlines[1]
  /\ \A i \in 1..Len(fs[report_path].rows) :
       fs[report_path].rows[i] = OldReportRow


(***************************************************************************)
(* One run of main() from the point where both scrapes have returned, on   *)
(* any stores (SpecOneRun)                                                 *)
(***************************************************************************)
InitOneRun ==
  /\ fs \in InitFiles
  /\ clock = 1
  /\ pc = "balance"
  /\ run = 1
  /\ fox_headlines \in FoxScrapes
  /\ nbc_headlines \in NbcScrapes
  /\ daily_headlines = <<>>
  /\ exit_status = -1
  /\ NoScrapeCall
  /\ NoValidCall
  /\ NoConcurrentRuns

NextOneRun == Balance \/ Integrate \/ NoIntegrate

SpecOneRun == InitOneRun /\ [][NextOneRun]_vars

====
